---------------------------- MODULE Spec2Model ----------------------------
(***************************************************************************)
(* Clinical measurement and classification engine of scroll_to_sco.        *)
(*                                                                         *)
(* Numbers.  The code computes in floating point; the model computes in    *)
(* fixed point, exactly:                                                   *)
(*   - pixel coordinates are integers; a vertebra centre is kept as 4x     *)
(*     its value (the sum of the four keypoints), so no division is lost;  *)
(*   - directions of vectors are in millidegrees (atan2 below);            *)
(*   - tilt_angle is in hundredths of a degree (round(.., 2));             *)
(*   - a Cobb angle is in tenths of a degree (round(.., 1));               *)
(*   - percentages and the HAI score are in tenths (round(.., 1)) and the  *)
(*     rotation scores in ten-thousandths (round(.., 4)).                  *)
(* Sequences are 1-based in TLA+; every index the code handles (an         *)
(* inflection, upper_idx, apex_idx) is kept 0-based as in the code and     *)
(* read with At.                                                           *)
(***************************************************************************)
EXTENDS Integers, Sequences, FiniteSets, TLC

VARIABLES
    pc,                 \* position of the call being modelled
    vertebrae,          \* List[Vertebra] handed to the engine
    orientation,        \* ImageOrientation used by calculate_all_cobb_angles
    inflections,        \* result of find_inflection_points
    cobb_angles,        \* List[CobbAngleMeasurement]
    primary_cobb_angle, \* get_primary_cobb_angle / argument of determine_severity
    schroth_type,       \* result of determine_schroth_type
    severity,           \* result of determine_severity
    primary_curve,      \* result of get_primary_curve_info
    segment,            \* arguments of determine_curve_location
    location,           \* result of determine_curve_location
    metrics,            \* AsymmetryMetrics handed to assess_risk_level
    risk_score,         \* accumulated risk_score
    findings,           \* List[ClinicalFinding] built by assess_risk_level
    risk_level,         \* RiskLevel
    risk_factors,       \* the finding lines returned
    recommendations,    \* the recommendation block returned
    landmarks,          \* landmark positions handed to a photo endpoint
    image,              \* image_width and image_height of the photo
    computed,           \* locals of the metric computation of an endpoint
    response,           \* what the endpoint returned: success or an error
    model_loaded,       \* SpineModel._loaded of the global model instance
    args,               \* arguments of a direct call of a core function
    result              \* what the direct call returned or raised

vars == <<pc, vertebrae, orientation, inflections, cobb_angles,
          primary_cobb_angle, schroth_type, severity, primary_curve,
          segment, location, metrics, risk_score, findings, risk_level,
          risk_factors, recommendations, landmarks, image, computed,
          response, model_loaded, args, result>>

xrayVars == <<vertebrae, orientation, inflections, cobb_angles,
              primary_cobb_angle, schroth_type, severity, primary_curve>>

photoVars == <<metrics, risk_score, findings, risk_level, risk_factors,
               recommendations>>

endpointVars == <<landmarks, image, computed, response, model_loaded>>

callVars == <<args, result>>

None == "unset"

(***************************************************************************)
(* Bounds of the model.                                                    *)
(***************************************************************************)
MaxVertebrae == 7       \* longest vertebra list drawn
MaxMeasurements == 2    \* longest measurement list drawn for the classifier
MaxTotal == 18          \* largest total_vertebrae drawn for curve location
MaxAngle == 1800        \* largest primary angle drawn, tenths of a degree
MetricStep == 1         \* how far above a threshold a metric is drawn, in its unit
MaxCandidates == 5      \* most detections handed to filter_spatial_outliers
MaxKeypoints == 6       \* most keypoints drawn for one vertebra
MaxDetections == 4      \* most raw detections handed to filter_detections
MaxSpine == 19          \* most vertebrae the detector finds in an /analyze image

(***************************************************************************)
(* Small arithmetic helpers.                                               *)
(***************************************************************************)
Abs(x) == IF x < 0 THEN -x ELSE x

Sign(x) == IF x > 0 THEN 1 ELSE IF x < 0 THEN -1 ELSE 0

\* 0-based read of a Python list
At(s, i) == s[i + 1]

\* Python slice s[a:b] with 0 <= a, clamped to the list
Slice(s, a, b) ==
    LET hi == IF b > Len(s) THEN Len(s) ELSE b
    IN  IF a >= hi THEN << >> ELSE SubSeq(s, a + 1, hi)

RECURSIVE SetToSortedSeq(_)
\* sorted(set(..)) of integers
SetToSortedSeq(S) ==
    IF S = {} THEN << >>
    ELSE LET m == CHOOSE x \in S : \A y \in S : x <= y
         IN  <<m>> \o SetToSortedSeq(S \ {m})

RECURSIVE SumSeq(_)
SumSeq(s) == IF s = << >> THEN 0 ELSE Head(s) + SumSeq(Tail(s))

RECURSIVE MaxOf(_, _)
\* max(iterable, default=d)
MaxOf(s, d) ==
    IF s = << >> THEN d
    ELSE IF Len(s) = 1 THEN Head(s)
    ELSE LET r == MaxOf(Tail(s), d)
         IN  IF Head(s) >= r THEN Head(s) ELSE r

(***************************************************************************)
(* Data model (api/schemas.py).                                            *)
(***************************************************************************)
CurveLocations == {"thoracic", "lumbar", "thoracolumbar"}
CurveDirections == {"left", "right", "none"}
SchrothTypes == {"3C", "3CP", "4C", "4CP", "unknown"}
Severities == {"mild", "moderate", "severe", "very_severe"}
ImageOrientations == {"standard", "flipped", "unknown"}

VERTEBRA_LABELS ==
    <<"T1", "T2", "T3", "T4", "T5", "T6", "T7", "T8", "T9", "T10", "T11",
      "T12", "L1", "L2", "L3", "L4", "L5">>

Keypoint(x, y) == [x |-> x, y |-> y]

(***************************************************************************)
(* np.arctan2 / np.arccos on the endplate vectors the model draws.         *)
(* Direction of a vector in millidegrees, (-180000, 180000].               *)
(***************************************************************************)
Atan2Milli(dy, dx) ==
    CASE dy = 0 /\ dx >= 0 -> 0
      [] dy = 0 /\ dx < 0 -> 180000
      [] dx = 0 /\ dy > 0 -> 90000
      [] dx = 0 /\ dy < 0 -> -90000
      [] dx = 20 /\ dy = 2 -> 5711
      [] dx = 20 /\ dy = -2 -> -5711
      [] dx = 20 /\ dy = 4 -> 11310
      [] dx = 20 /\ dy = -4 -> -11310
      [] dx = 20 /\ dy = 6 -> 16699
      [] dx = 20 /\ dy = -6 -> -16699
      [] dx = -20 /\ dy = 6 -> 163301
      [] dx = -20 /\ dy = -4 -> -168690
      [] dx = 1 /\ dy = 1 -> 45000
      [] dx = -1 /\ dy = -1 -> -135000
      [] dx = 30 /\ dy = 27 -> 41987
      [] dx = -30 /\ dy = -27 -> -138013

\* round(x, k) of a value given in units 1/(scale * 10^k): to the nearest
\* multiple of scale, for either sign
RoundDiv(x, scale) ==
    IF x >= 0 THEN (x + scale \div 2) \div scale
    ELSE -((-x + scale \div 2) \div scale)

(***************************************************************************)
(* scoliovis/postprocessing.py: the Vertebra objects extract_vertebrae     *)
(* builds.                                                                 *)
(***************************************************************************)
\* round(degrees(arctan2(dy, dx)), 2), in hundredths of a degree
calculate_vertebra_tilt(keypoints) ==
    IF Len(keypoints) < 4 THEN 0
    ELSE LET tl == At(keypoints, 0)
             tr == At(keypoints, 1)
             dx == tr.x - tl.x
             dy == tr.y - tl.y
         IN  RoundDiv(Atan2Milli(dy, dx), 10)

\* One Vertebra of extract_vertebrae: label by position, tilt from keypoints
Vertebra(idx, kps) ==
    [index |-> idx,
     label |-> IF idx < Len(VERTEBRA_LABELS) THEN At(VERTEBRA_LABELS, idx)
               ELSE "V" \o ToString(idx + 1),
     keypoints |-> kps,
     tilt_angle |-> calculate_vertebra_tilt(kps)]

(***************************************************************************)
(* scoliovis/cobb_angle.py                                                 *)
(***************************************************************************)
\* right - left of the chosen endplate, as [x, y]
get_endplate_vector(keypoints, endplate) ==
    IF endplate = "upper"
    THEN [x |-> At(keypoints, 1).x - At(keypoints, 0).x,
          y |-> At(keypoints, 1).y - At(keypoints, 0).y]
    ELSE [x |-> At(keypoints, 3).x - At(keypoints, 2).x,
          y |-> At(keypoints, 3).y - At(keypoints, 2).y]

\* 4 x the centre of the four keypoints (the code divides the sums by 4)
get_vertebra_center(keypoints) ==
    [x |-> SumSeq([i \in 1..Len(keypoints) |-> keypoints[i].x]),
     y |-> SumSeq([i \in 1..Len(keypoints) |-> keypoints[i].y])]

\* Fault variant: only the first vector is tested for zero magnitude
calculate_angle_between_vectors_first_norm_only(v1, v2) ==
    IF v1.x * v1.x + v1.y * v1.y = 0 THEN 0
    ELSE LET d == Abs(Atan2Milli(v1.y, v1.x) - Atan2Milli(v2.y, v2.x))
         IN  IF d > 180000 THEN 360000 - d ELSE d

\* arccos of the clamped normalised dot product, in millidegrees [0, 180000];
\* 0 when either vector has zero magnitude
calculate_angle_between_vectors(v1, v2) ==
    LET norm1sq == v1.x * v1.x + v1.y * v1.y
        norm2sq == v2.x * v2.x + v2.y * v2.y
    IN  IF norm1sq = 0 \/ norm2sq = 0 THEN 0
        ELSE LET d == Abs(Atan2Milli(v1.y, v1.x) - Atan2Milli(v2.y, v2.x))
             IN  IF d > 180000 THEN 360000 - d ELSE d

(***************************************************************************)
(* The float64 result of calculate_angle_between_vectors, in units of      *)
(* 10^-7 degree.  Dividing by the norms and multiplying again is not exact *)
(* in binary floating point: for parallel or opposite vectors the          *)
(* normalised dot product may differ from 1 in magnitude by a few units of *)
(* 2^-53, and arccos turns one such unit into 8.5e-7 degree.               *)
(***************************************************************************)
\* |dot_product| - 1 in units of 2^-53 for v1 parallel or opposite to v2, as
\* IEEE double arithmetic gives it on the drawn vectors; where a fused
\* multiply-add changes the value both are listed
DotProductExcess(v) ==
    CASE Abs(v.x) = 1 /\ Abs(v.y) = 1 -> {-2}
      [] Abs(v.x) = 20 /\ Abs(v.y) = 6 -> {-2, -1}
      [] Abs(v.x) = 30 /\ Abs(v.y) = 27 -> {2}
      [] v.x = 0 \/ v.y = 0 -> {0}
      [] Abs(v.x) = 20 /\ Abs(v.y) \in {2, 4} -> {0}

\* np.arccos of a value above 1
NaN == 0 - 1

\* Fault variant: the dot product is not clamped
np_clip_absent(excess) == excess

\* np.clip(dot_product, -1.0, 1.0), as the excess of the magnitude over 1
np_clip(excess) == IF excess > 0 THEN 0 ELSE excess

\* np.degrees(np.arccos(1 + excess * 2^-53)), in units of 10^-7 degree
ArccosDegrees(excess) ==
    CASE excess > 0 -> NaN
      [] excess = 0 -> 0
      [] excess = -1 -> 9
      [] excess = -2 -> 12

STRAIGHT == 1800000000

\* the values angle_deg may take: for vectors in general position the
\* millidegrees of calculate_angle_between_vectors, and for parallel or
\* opposite vectors what is left of the rounding of the dot product
angle_deg(v1, v2) ==
    LET exact == calculate_angle_between_vectors(v1, v2)
        norm1sq == v1.x * v1.x + v1.y * v1.y
        norm2sq == v2.x * v2.x + v2.y * v2.y
        cross == v1.x * v2.y - v1.y * v2.x
        dot == v1.x * v2.x + v1.y * v2.y
    IN  IF norm1sq # 0 /\ norm2sq # 0 /\ cross = 0
        THEN {LET off == ArccosDegrees(np_clip(excess))
              IN  IF off = NaN THEN NaN
                  ELSE IF dot > 0 THEN off ELSE STRAIGHT - off
                : excess \in DotProductExcess(v1)}
        ELSE {exact * 10000}

\* Fault variant: an index is flagged whenever the two differences differ in
\* sign, a zero difference counting as a sign of its own
find_inflection_points_any_sign_change(vs) ==
    IF Len(vs) < 3 THEN <<0, Len(vs) - 1>>
    ELSE LET tilts == [i \in 1..Len(vs) |-> vs[i].tilt_angle]
             flagged == {i \in 1..(Len(tilts) - 2) :
                            Sign(At(tilts, i) - At(tilts, i - 1))
                                # Sign(At(tilts, i + 1) - At(tilts, i))}
         IN  SetToSortedSeq({0} \cup flagged \cup {Len(vs) - 1})

\* Fault variant: the last index is not added to the interior inflections
find_inflection_points_without_last(vs) ==
    IF Len(vs) < 3 THEN <<0, Len(vs) - 1>>
    ELSE LET tilts == [i \in 1..Len(vs) |-> vs[i].tilt_angle]
             flagged == {i \in 1..(Len(tilts) - 2) :
                            (At(tilts, i) - At(tilts, i - 1))
                                * (At(tilts, i + 1) - At(tilts, i)) < 0}
         IN  SetToSortedSeq({0} \cup flagged)

\* sorted(set([0] + interior sign changes + [n - 1])); [0, n - 1] below 3
find_inflection_points(vs) ==
    IF Len(vs) < 3 THEN <<0, Len(vs) - 1>>
    ELSE LET tilts == [i \in 1..Len(vs) |-> vs[i].tilt_angle]
             flagged == {i \in 1..(Len(tilts) - 2) :
                            LET prev_diff == At(tilts, i) - At(tilts, i - 1)
                                next_diff == At(tilts, i + 1) - At(tilts, i)
                            IN  prev_diff * next_diff < 0}
         IN  SetToSortedSeq({0} \cup flagged \cup {Len(vs) - 1})

\* 8 x |centre x - midline x| of the vertebra at 0-based idx, the midline
\* being the mean of the centres at start_idx and end_idx
Deviation(vs, start_idx, end_idx, idx) ==
    Abs(2 * get_vertebra_center(At(vs, idx).keypoints).x
        - (get_vertebra_center(At(vs, start_idx).keypoints).x
           + get_vertebra_center(At(vs, end_idx).keypoints).x))

RECURSIVE ApexScan(_, _, _, _, _, _)
\* the loop of find_apex_vertebra / determine_curve_direction: the first
\* index of the segment whose deviation is strictly the largest so far
ApexScan(vs, start_idx, end_idx, i, max_deviation, apex_idx) ==
    IF i > end_idx THEN apex_idx
    ELSE LET deviation == Deviation(vs, start_idx, end_idx, i)
         IN  IF deviation > max_deviation
             THEN ApexScan(vs, start_idx, end_idx, i + 1, deviation, i)
             ELSE ApexScan(vs, start_idx, end_idx, i + 1, max_deviation, apex_idx)

\* Fault variant: the apex is the vertebra below the one the loop finds,
\* where there is one in the segment
find_apex_vertebra_one_below(vs, start_idx, end_idx) ==
    IF end_idx - start_idx < 2 THEN start_idx
    ELSE LET apex_idx == ApexScan(vs, start_idx, end_idx, start_idx, 0, start_idx)
         IN  IF apex_idx < end_idx THEN apex_idx + 1 ELSE apex_idx

find_apex_vertebra(vs, start_idx, end_idx) ==
    IF end_idx - start_idx < 2 THEN start_idx
    ELSE ApexScan(vs, start_idx, end_idx, start_idx, 0, start_idx)

\* Fault variant: the proportional 60%/80% bands also for 15 vertebrae or more
determine_curve_location_proportional(upper_idx, lower_idx, total_vertebrae) ==
    LET mid2 == upper_idx + lower_idx
        thoracic_end ==
            IF total_vertebrae >= 10 THEN (total_vertebrae * 6) \div 10
            ELSE (total_vertebrae * 5) \div 10
        lumbar_start ==
            IF total_vertebrae >= 10 THEN (total_vertebrae * 8) \div 10
            ELSE (total_vertebrae * 7) \div 10
    IN  IF mid2 <= 2 * thoracic_end THEN "thoracic"
        ELSE IF mid2 >= 2 * lumbar_start THEN "lumbar"
        ELSE "thoracolumbar"

determine_curve_location(upper_idx, lower_idx, total_vertebrae) ==
    LET \* mid_point = (upper_idx + lower_idx) / 2, compared doubled
        mid2 == upper_idx + lower_idx
        thoracic_end ==
            IF total_vertebrae >= 15 THEN 9
            ELSE IF total_vertebrae >= 10 THEN (total_vertebrae * 6) \div 10
            ELSE (total_vertebrae * 5) \div 10
        lumbar_start ==
            IF total_vertebrae >= 15 THEN 13
            ELSE IF total_vertebrae >= 10 THEN (total_vertebrae * 8) \div 10
            ELSE (total_vertebrae * 7) \div 10
    IN  IF mid2 <= 2 * thoracic_end THEN "thoracic"
        ELSE IF mid2 >= 2 * lumbar_start THEN "lumbar"
        ELSE "thoracolumbar"

\* Fault variant: every orientation other than standard inverts the direction
determine_curve_direction_unknown_flips(vs, start_idx, end_idx, orient) ==
    IF end_idx - start_idx + 1 < 3 THEN "none"
    ELSE LET apex == ApexScan(vs, start_idx, end_idx, start_idx, 0, start_idx)
             side == 2 * get_vertebra_center(At(vs, apex).keypoints).x
                     - (get_vertebra_center(At(vs, start_idx).keypoints).x
                        + get_vertebra_center(At(vs, end_idx).keypoints).x)
             pixel_direction == IF side > 0 THEN "right"
                                ELSE IF side < 0 THEN "left" ELSE "none"
         IN  IF pixel_direction = "none" THEN "none"
             ELSE IF orient # "standard"
             THEN (IF pixel_direction = "right" THEN "left" ELSE "right")
             ELSE pixel_direction

determine_curve_direction(vs, start_idx, end_idx, orient) ==
    IF end_idx - start_idx + 1 < 3 THEN "none"
    ELSE LET apex == ApexScan(vs, start_idx, end_idx, start_idx, 0, start_idx)
             \* 2 x (apex_x - midline_x), scaled by 4
             side == 2 * get_vertebra_center(At(vs, apex).keypoints).x
                     - (get_vertebra_center(At(vs, start_idx).keypoints).x
                        + get_vertebra_center(At(vs, end_idx).keypoints).x)
             pixel_direction == IF side > 0 THEN "right"
                                ELSE IF side < 0 THEN "left" ELSE "none"
         IN  IF pixel_direction = "none" THEN "none"
             ELSE IF orient = "flipped"
             THEN (IF pixel_direction = "right" THEN "left" ELSE "right")
             ELSE pixel_direction

\* round(angle, 1), in tenths of a degree
calculate_cobb_angle_for_segment(vs, upper_idx, lower_idx) ==
    LET upper_vector == get_endplate_vector(At(vs, upper_idx).keypoints, "upper")
        lower_vector == get_endplate_vector(At(vs, lower_idx).keypoints, "lower")
    IN  RoundDiv(calculate_angle_between_vectors(upper_vector, lower_vector), 100)

\* the measurement built for the segment between two consecutive inflections
Measure(vs, upper_idx, lower_idx, orient) ==
    [angle |-> calculate_cobb_angle_for_segment(vs, upper_idx, lower_idx),
     upper_vertebra |-> At(vs, upper_idx).label,
     lower_vertebra |-> At(vs, lower_idx).label,
     apex_vertebra |-> At(vs, find_apex_vertebra(vs, upper_idx, lower_idx)).label,
     curve_location |-> determine_curve_location(upper_idx, lower_idx, Len(vs)),
     curve_direction |-> determine_curve_direction(vs, upper_idx, lower_idx, orient)]

\* Fault variant: only segments of fewer than 3 vertebrae are skipped for
\* their length
SkipSegmentUnderThreeVertebrae(vs, upper_idx, lower_idx) ==
    \/ lower_idx - upper_idx + 1 < 3
    \/ calculate_cobb_angle_for_segment(vs, upper_idx, lower_idx) < 100

\* Fault variant: segments are skipped for their length only, whatever their
\* angle
SkipSegmentWhateverTheAngle(vs, upper_idx, lower_idx) ==
    lower_idx - upper_idx < 3

\* the segment is skipped by the loop of calculate_all_cobb_angles
SkipSegment(vs, upper_idx, lower_idx) ==
    \/ lower_idx - upper_idx < 3
    \/ calculate_cobb_angle_for_segment(vs, upper_idx, lower_idx) < 100

RECURSIVE InsertDescending(_, _)
\* m placed after every element whose angle is >= its own (a stable sort)
InsertDescending(sorted, m) ==
    IF sorted = << >> THEN <<m>>
    ELSE IF Head(sorted).angle >= m.angle
    THEN <<Head(sorted)>> \o InsertDescending(Tail(sorted), m)
    ELSE <<m>> \o sorted

\* Fault variant: the measurements stay in the order the loop appended them
KeepAppendOrder(ms) == ms

RECURSIVE SortByAngleDescending(_)
\* measurements.sort(key=lambda m: m.angle, reverse=True)
SortByAngleDescending(ms) ==
    IF ms = << >> THEN << >>
    ELSE InsertDescending(SortByAngleDescending(SubSeq(ms, 1, Len(ms) - 1)),
                          ms[Len(ms)])

RECURSIVE MeasureLoop(_, _, _, _)
\* for i in range(len(inflections) - 1): ... measurements.append(..)
MeasureLoop(vs, infl, i, orient) ==
    IF i >= Len(infl) - 1 THEN << >>
    ELSE LET upper_idx == At(infl, i)
             lower_idx == At(infl, i + 1)
             rest == MeasureLoop(vs, infl, i + 1, orient)
         IN  IF SkipSegment(vs, upper_idx, lower_idx) THEN rest
             ELSE <<Measure(vs, upper_idx, lower_idx, orient)>> \o rest

\* Fault variant: lists of 4 vertebrae are measured too
calculate_all_cobb_angles_from_four(vs, orient) ==
    IF Len(vs) < 4 THEN << >>
    ELSE SortByAngleDescending(
             MeasureLoop(vs, find_inflection_points(vs), 0, orient))

calculate_all_cobb_angles(vs, orient) ==
    IF Len(vs) < 5 THEN << >>
    ELSE SortByAngleDescending(
             MeasureLoop(vs, find_inflection_points(vs), 0, orient))

get_primary_cobb_angle(measurements) ==
    IF measurements = << >> THEN 0 ELSE At(measurements, 0).angle

(***************************************************************************)
(* scoliovis/classification.py                                             *)
(***************************************************************************)
\* |lower-right y - lower-left y| / width < 0.1 on the lowest vertebra
is_pelvis_balanced(vs) ==
    IF Len(vs) < 5 THEN TRUE
    ELSE LET kp == vs[Len(vs)].keypoints
         IN  IF Len(kp) < 4 THEN TRUE
             ELSE LET width == Abs(At(kp, 3).x - At(kp, 2).x)
                      rise == Abs(At(kp, 3).y - At(kp, 2).y)
                  IN  IF width = 0 THEN TRUE
                      ELSE 10 * rise < width

\* (lumbar_x - midline_x) * (pelvis_x - midline_x) > 0
is_pelvis_lumbar_coupled(vs) ==
    IF Len(vs) < 5 THEN TRUE
    ELSE LET CenterX(v) == get_vertebra_center(v.keypoints).x
             upper == Slice(vs, 0, 3)
             \* 3 x midline_x (each centre kept 4-fold)
             midline3 == SumSeq([i \in 1..Len(upper) |-> CenterX(upper[i])])
             lumbar_start == IF Len(vs) - 5 > 0 THEN Len(vs) - 5 ELSE 0
             lumbar_end == Len(vs) - 1
             lumbar_segment == Slice(vs, lumbar_start, lumbar_end)
             k == Len(lumbar_segment)
             lumbar_sum == SumSeq([i \in 1..k |-> CenterX(lumbar_segment[i])])
             pelvis_x == CenterX(vs[Len(vs)])
             \* signs of lumbar_x - midline_x and pelvis_x - midline_x
             lumbar_direction == Sign(3 * lumbar_sum - k * midline3)
             pelvis_direction == Sign(3 * pelvis_x - midline3)
         IN  IF k = 0 THEN TRUE
             ELSE lumbar_direction * pelvis_direction > 0

\* the angles of the measurements whose location is in locs, in list order
AnglesIn(measurements, locs) ==
    LET sel == SelectSeq(measurements, LAMBDA c : c.curve_location \in locs)
    IN  [i \in 1..Len(sel) |-> sel[i].angle]

get_dominant_curve_region(measurements) ==
    LET thoracic_max == MaxOf(<<0>> \o AnglesIn(measurements, {"thoracic"}), 0)
        lumbar_max == MaxOf(<<0>> \o AnglesIn(measurements,
                                              {"lumbar", "thoracolumbar"}), 0)
    IN  IF thoracic_max >= lumbar_max THEN <<"thoracic", thoracic_max>>
        ELSE <<"lumbar", lumbar_max>>

\* Fault variant: thoracic dominance already at max_thoracic >= 1.2 max_lumbar
determine_schroth_type_ratio_inclusive(measurements, vs) ==
    IF measurements = << >> THEN "unknown"
    ELSE LET pelvis_balanced == is_pelvis_balanced(vs)
             max_thoracic == MaxOf(AnglesIn(measurements, {"thoracic"}), 0)
             max_lumbar == MaxOf(AnglesIn(measurements,
                                          {"lumbar", "thoracolumbar"}), 0)
             is_double_curve == /\ max_thoracic >= 100
                                /\ max_lumbar >= 100
                                /\ Abs(max_thoracic - max_lumbar) < 150
         IN  IF pelvis_balanced
             THEN IF is_double_curve THEN "4C"
                  ELSE IF 10 * max_thoracic >= 12 * max_lumbar THEN "3C"
                  ELSE "4C"
             ELSE IF is_pelvis_lumbar_coupled(vs) THEN "3CP" ELSE "4CP"

determine_schroth_type(measurements, vs) ==
    IF measurements = << >> THEN "unknown"
    ELSE LET pelvis_balanced == is_pelvis_balanced(vs)
             max_thoracic == MaxOf(AnglesIn(measurements, {"thoracic"}), 0)
             max_lumbar == MaxOf(AnglesIn(measurements,
                                          {"lumbar", "thoracolumbar"}), 0)
             is_double_curve == /\ max_thoracic >= 100
                                /\ max_lumbar >= 100
                                /\ Abs(max_thoracic - max_lumbar) < 150
         IN  IF pelvis_balanced
             THEN IF is_double_curve THEN "4C"
                  \* max_thoracic > max_lumbar * 1.2
                  ELSE IF 10 * max_thoracic > 12 * max_lumbar THEN "3C"
                  ELSE "4C"
             ELSE IF is_pelvis_lumbar_coupled(vs) THEN "3CP" ELSE "4CP"

\* Fault variant: the boundary angles 25, 40 and 50 stay in the lower grade
determine_severity_boundary_low(angle) ==
    IF angle <= 250 THEN "mild"
    ELSE IF angle <= 400 THEN "moderate"
    ELSE IF angle <= 500 THEN "severe"
    ELSE "very_severe"

\* primary_cobb_angle in tenths of a degree
determine_severity(angle) ==
    IF angle < 100 THEN "mild"
    ELSE IF angle < 250 THEN "mild"
    ELSE IF angle < 400 THEN "moderate"
    ELSE IF angle < 500 THEN "severe"
    ELSE "very_severe"

\* Fault variant: the last measurement of the list is taken as the primary
get_primary_curve_info_of_last(measurements) ==
    IF measurements = << >>
    THEN [curve_location |-> "thoracic", curve_direction |-> "none"]
    ELSE [curve_location |-> measurements[Len(measurements)].curve_location,
          curve_direction |-> measurements[Len(measurements)].curve_direction]

get_primary_curve_info(measurements) ==
    IF measurements = << >>
    THEN [curve_location |-> "thoracic", curve_direction |-> "none"]
    ELSE [curve_location |-> At(measurements, 0).curve_location,
          curve_direction |-> At(measurements, 0).curve_direction]

(***************************************************************************)
(* Inputs of the X-ray path.  Every vertebra is one of a few shapes: a     *)
(* lateral offset of its left edge and its two endplate vectors; its       *)
(* keypoints follow in the order [TL, TR, BL, BR], stacked top to bottom.  *)
(***************************************************************************)
VertebraShapes ==
    <<[offset |-> 0,  upper |-> [x |-> 20, y |-> 0],  lower |-> [x |-> 20, y |-> 0]],
      [offset |-> 0,  upper |-> [x |-> 20, y |-> 4],  lower |-> [x |-> 20, y |-> 4]],
      [offset |-> -3, upper |-> [x |-> 20, y |-> -2], lower |-> [x |-> 20, y |-> -2]]>>

ShapeKeypoints(shape, idx) ==
    LET left == 100 + shape.offset
        top == 40 + 30 * idx
    IN  <<Keypoint(left, top),
          Keypoint(left + shape.upper.x, top + shape.upper.y),
          Keypoint(left, top + 20),
          Keypoint(left + shape.lower.x, top + 20 + shape.lower.y)>>

\* the vertebra list extract_vertebrae builds from a list of shape numbers
VertebraList(sh) ==
    [i \in 1..Len(sh) |-> Vertebra(i - 1, ShapeKeypoints(VertebraShapes[sh[i]], i - 1))]

\* vertebrae is one of the vertebra lists of the given lengths
DrawVertebrae(lengths) ==
    \E n \in lengths :
        \E sh \in [1..n -> DOMAIN VertebraShapes] : vertebrae = VertebraList(sh)

xrayIdle ==
    /\ orientation = None
    /\ inflections = None
    /\ cobb_angles = None
    /\ primary_cobb_angle = None
    /\ schroth_type = None
    /\ severity = None
    /\ primary_curve = None

locationIdle == segment = None /\ location = None

endpointIdle ==
    /\ landmarks = None
    /\ image = None
    /\ computed = None
    /\ response = None
    /\ model_loaded = None

callIdle == args = None /\ result = None

photoIdle ==
    /\ metrics = None
    /\ risk_score = None
    /\ findings = None
    /\ risk_level = None
    /\ risk_factors = None
    /\ recommendations = None

(***************************************************************************)
(* Spec: the X-ray engine on a vertebra list.                              *)
(***************************************************************************)
Init ==
    /\ pc = "input"
    /\ DrawVertebrae(0..MaxVertebrae)
    /\ xrayIdle
    /\ locationIdle
    /\ photoIdle
    /\ endpointIdle
    /\ callIdle

\* a direct call of find_inflection_points
FindInflectionPoints ==
    /\ pc = "input"
    /\ inflections' = find_inflection_points(vertebrae)
    /\ pc' = "inflections"
    /\ UNCHANGED <<vertebrae, orientation, cobb_angles, primary_cobb_angle,
                   schroth_type, severity, primary_curve, segment, location>>
    /\ UNCHANGED photoVars
    /\ UNCHANGED endpointVars
    /\ UNCHANGED callVars

\* calculate_all_cobb_angles and get_primary_cobb_angle (analyze_spine, step 6)
CalculateAllCobbAngles ==
    /\ pc = "input"
    /\ \E orient \in ImageOrientations :
          /\ orientation' = orient
          /\ cobb_angles' = calculate_all_cobb_angles(vertebrae, orient)
    /\ inflections' = IF Len(vertebrae) < 5 THEN inflections
                      ELSE find_inflection_points(vertebrae)
    /\ primary_cobb_angle' = get_primary_cobb_angle(cobb_angles')
    /\ pc' = "measured"
    /\ UNCHANGED <<vertebrae, schroth_type, severity, primary_curve,
                   segment, location>>
    /\ UNCHANGED photoVars
    /\ UNCHANGED endpointVars
    /\ UNCHANGED callVars

\* the classifications of analyze_spine, step 7
Classify ==
    /\ pc = "measured"
    /\ schroth_type' = determine_schroth_type(cobb_angles, vertebrae)
    /\ severity' = determine_severity(primary_cobb_angle)
    /\ primary_curve' = get_primary_curve_info(cobb_angles)
    /\ pc' = "classified"
    /\ UNCHANGED <<vertebrae, orientation, inflections, cobb_angles,
                   primary_cobb_angle, segment, location>>
    /\ UNCHANGED photoVars
    /\ UNCHANGED endpointVars
    /\ UNCHANGED callVars

Next ==
    \/ FindInflectionPoints
    \/ CalculateAllCobbAngles
    \/ Classify

Spec == Init /\ [][Next]_vars

(***************************************************************************)
(* Properties of the X-ray engine (checked under Spec).                    *)
(***************************************************************************)
Measured == pc \in {"measured", "classified"}

\* the elements of a list
Range(s) == {s[i] : i \in DOMAIN s}

\* the consecutive inflection pairs <<upper_idx, lower_idx>> of the state
InflectionPairs ==
    {<<inflections[i], inflections[i + 1]>> : i \in 1..(Len(inflections) - 1)}

\* C1: calculate_all_cobb_angles returns the empty list for every vertebra
\* list shorter than 5, whatever the orientation (and the call returns: the
\* action is enabled on every such input).
C1_ShortListGivesNoMeasurement ==
    (Measured /\ Len(vertebrae) < 5) => cobb_angles = << >>

C1_Witness ==
    /\ pc = "measured"
    /\ Len(vertebrae) = 4
    /\ orientation = "flipped"
    /\ cobb_angles = << >>

\* C2: the measurement list is sorted by angle, largest first.
C2_SortedByAngleDescending ==
    Measured =>
        \A i \in 1..(Len(cobb_angles) - 1) :
            cobb_angles[i].angle >= cobb_angles[i + 1].angle

\* two measurements that the loop appended smallest first
C2_Witness ==
    /\ pc = "measured"
    /\ Len(cobb_angles) = 2
    /\ cobb_angles[1].angle > cobb_angles[2].angle
    /\ cobb_angles[1].upper_vertebra = cobb_angles[2].lower_vertebra

\* the pairs of consecutive inflection points whose index difference is at
\* least min_diff and whose Cobb angle is at least 10.0 degrees
SignificantPairs(min_diff) ==
    {p \in InflectionPairs :
        /\ p[2] - p[1] >= min_diff
        /\ calculate_cobb_angle_for_segment(vertebrae, p[1], p[2]) >= 100}

\* exactly one measurement for each pair of P, and no other measurement
OneMeasurementPerPair(P) ==
    /\ Len(cobb_angles) = Cardinality(P)
    /\ \A p \in P :
          Measure(vertebrae, p[1], p[2], orientation) \in Range(cobb_angles)
    /\ \A m \in Range(cobb_angles) :
          \E p \in P : m = Measure(vertebrae, p[1], p[2], orientation)

\* C3 as stated: one measurement for each consecutive pair of inflection
\* points whose segment spans at least 3 vertebrae, both ends counted (index
\* difference >= 2), and whose angle is at least 10 degrees; no other.
C3_AsStated ==
    (pc = "measured" /\ Len(vertebrae) >= 5) => OneMeasurementPerPair(SignificantPairs(2))

\* C3 amended: one measurement for each consecutive pair of inflection
\* points whose index difference is at least 3 (a segment of at least 4
\* vertebrae, both ends counted) and whose angle is at least 10 degrees; no
\* other.
C3_OneMeasurementPerLongSegment ==
    (pc = "measured" /\ Len(vertebrae) >= 5) => OneMeasurementPerPair(SignificantPairs(3))

\* a list with a measured segment and a segment of exactly 3 vertebrae
\* that is left out although its angle reaches 10 degrees
C3_Witness ==
    /\ pc = "measured"
    /\ Len(vertebrae) >= 5
    /\ cobb_angles # << >>
    /\ \E p \in InflectionPairs :
          /\ p[2] - p[1] = 2
          /\ calculate_cobb_angle_for_segment(vertebrae, p[1], p[2]) >= 100

\* tilt[i] - tilt[i-1] and tilt[i+1] - tilt[i] at the 0-based index i
PrevDiff(i) == At(vertebrae, i).tilt_angle - At(vertebrae, i - 1).tilt_angle
NextDiff(i) == At(vertebrae, i + 1).tilt_angle - At(vertebrae, i).tilt_angle

InteriorIndices == 1..(Len(vertebrae) - 2)

\* C4 as stated: an interior index is flagged exactly when the two tilt
\* differences have different signs, zero being a sign of its own.
C4_AsStated ==
    (pc = "inflections" /\ Len(vertebrae) >= 3) =>
        \A i \in InteriorIndices :
            (i \in Range(inflections)) <=> (Sign(PrevDiff(i)) # Sign(NextDiff(i)))

\* C4 amended: an interior index is flagged exactly when one tilt difference
\* is strictly positive and the other strictly negative; a zero difference
\* on either side never flags the index.
C4_FlaggedIffOppositeNonZeroSigns ==
    (pc = "inflections" /\ Len(vertebrae) >= 3) =>
        \A i \in InteriorIndices :
            (i \in Range(inflections)) <=>
                \/ PrevDiff(i) > 0 /\ NextDiff(i) < 0
                \/ PrevDiff(i) < 0 /\ NextDiff(i) > 0

\* one interior index flagged, one not flagged next to a zero difference,
\* and one not flagged between two differences of the same sign
C4_Witness ==
    /\ pc = "inflections"
    /\ \E i \in InteriorIndices : i \in Range(inflections)
    /\ \E i \in InteriorIndices :
          /\ i \notin Range(inflections)
          /\ PrevDiff(i) = 0
          /\ NextDiff(i) # 0
    /\ \E i \in InteriorIndices :
          /\ i \notin Range(inflections)
          /\ PrevDiff(i) * NextDiff(i) > 0

\* C5: for n >= 1 vertebrae the result of find_inflection_points contains
\* index 0 and index n-1, and for n < 3 it is exactly [0, n-1].
C5_EndsAlwaysIncluded ==
    (pc = "inflections" /\ Len(vertebrae) >= 1) =>
        /\ 0 \in Range(inflections)
        /\ (Len(vertebrae) - 1) \in Range(inflections)
        /\ Len(vertebrae) < 3 => inflections = <<0, Len(vertebrae) - 1>>

C5_Witness ==
    /\ pc = "inflections"
    /\ Len(vertebrae) = 1
    /\ inflections = <<0, 0>>

InverseDirection(d) ==
    IF d = "left" THEN "right" ELSE IF d = "right" THEN "left" ELSE "none"

\* the 0-based index of the vertebra carrying the label
IndexOfLabel(l) == CHOOSE i \in 0..(Len(vertebrae) - 1) : At(vertebrae, i).label = l

\* C7: on the same vertebrae and segment, determine_curve_direction with
\* orientation flipped gives the inverse of its result with orientation
\* standard (none stays none), and with orientation unknown the same result
\* as with standard: for every segment of the list, and for the direction
\* recorded on every measurement under the orientation of the call.
C7_FlippedInvertsUnknownKeeps ==
    Measured =>
        /\ \A s \in 0..(Len(vertebrae) - 1) : \A e \in s..(Len(vertebrae) - 1) :
              LET standard == determine_curve_direction(vertebrae, s, e, "standard")
              IN  /\ determine_curve_direction(vertebrae, s, e, "flipped")
                        = InverseDirection(standard)
                  /\ determine_curve_direction(vertebrae, s, e, "unknown") = standard
        /\ \A m \in Range(cobb_angles) :
              LET standard == determine_curve_direction(vertebrae,
                                  IndexOfLabel(m.upper_vertebra),
                                  IndexOfLabel(m.lower_vertebra), "standard")
              IN  m.curve_direction = IF orientation = "flipped"
                                      THEN InverseDirection(standard)
                                      ELSE standard

\* a flipped call that recorded a left curve, a right curve and a curve
\* without direction on pixel geometry right, left and none
C7_Witness ==
    /\ pc = "measured"
    /\ orientation = "flipped"
    /\ \E m \in Range(cobb_angles) :
          /\ m.curve_direction = "left"
          /\ determine_curve_direction(vertebrae, IndexOfLabel(m.upper_vertebra),
                 IndexOfLabel(m.lower_vertebra), "unknown") = "right"
    /\ \E m \in Range(cobb_angles) : m.curve_direction \in {"right", "none"}

(***************************************************************************)
(* SpecClassify: direct calls of the classifier functions on drawn         *)
(* arguments: determine_severity on an angle, determine_curve_location on  *)
(* a segment, determine_schroth_type on a measurement list and a vertebra  *)
(* list.                                                                   *)
(***************************************************************************)
\* Cobb angles drawn for the measurement lists, tenths of a degree
ClassifierAngles == {100, 250, 800, 960}

\* a measurement as calculate_all_cobb_angles emits it (angle >= 10.0)
DrawnMeasurement(a, loc) ==
    [angle |-> a,
     upper_vertebra |-> "T1",
     lower_vertebra |-> "T4",
     apex_vertebra |-> "T2",
     curve_location |-> loc,
     curve_direction |-> "right"]

\* cobb_angles is a measurement list sorted by angle, largest first
DrawMeasurements ==
    \E n \in 0..MaxMeasurements :
        \E f \in [1..n -> ClassifierAngles \X CurveLocations] :
            /\ \A i \in 1..(n - 1) : f[i][1] >= f[i + 1][1]
            /\ cobb_angles = [i \in 1..n |-> DrawnMeasurement(f[i][1], f[i][2])]

InitSeverity ==
    /\ pc = "severity"
    /\ primary_cobb_angle \in 0..MaxAngle
    /\ vertebrae = None /\ orientation = None /\ inflections = None
    /\ cobb_angles = None /\ schroth_type = None /\ severity = None
    /\ primary_curve = None
    /\ locationIdle
    /\ photoIdle
    /\ endpointIdle
    /\ callIdle

InitLocation ==
    /\ pc = "location"
    /\ \E total \in 1..MaxTotal : \E lower \in 0..(total - 1) : \E upper \in 0..lower :
          segment = [upper_idx |-> upper, lower_idx |-> lower,
                     total_vertebrae |-> total]
    /\ location = None
    /\ vertebrae = None
    /\ xrayIdle
    /\ photoIdle
    /\ endpointIdle
    /\ callIdle

InitSchroth ==
    /\ pc = "schroth"
    /\ DrawVertebrae({5})
    /\ DrawMeasurements
    /\ orientation = None /\ inflections = None /\ primary_cobb_angle = None
    /\ schroth_type = None /\ severity = None /\ primary_curve = None
    /\ locationIdle
    /\ photoIdle
    /\ endpointIdle
    /\ callIdle

InitClassify == InitSeverity \/ InitLocation \/ InitSchroth

DetermineSeverity ==
    /\ pc = "severity"
    /\ severity' = determine_severity(primary_cobb_angle)
    /\ pc' = "graded"
    /\ UNCHANGED <<vertebrae, orientation, inflections, cobb_angles,
                   primary_cobb_angle, schroth_type, primary_curve,
                   segment, location>>
    /\ UNCHANGED photoVars
    /\ UNCHANGED endpointVars
    /\ UNCHANGED callVars

DetermineCurveLocation ==
    /\ pc = "location"
    /\ location' = determine_curve_location(segment.upper_idx, segment.lower_idx,
                                            segment.total_vertebrae)
    /\ pc' = "located"
    /\ UNCHANGED xrayVars
    /\ UNCHANGED segment
    /\ UNCHANGED photoVars
    /\ UNCHANGED endpointVars
    /\ UNCHANGED callVars

DetermineSchrothType ==
    /\ pc = "schroth"
    /\ schroth_type' = determine_schroth_type(cobb_angles, vertebrae)
    /\ pc' = "typed"
    /\ UNCHANGED <<vertebrae, orientation, inflections, cobb_angles,
                   primary_cobb_angle, severity, primary_curve,
                   segment, location>>
    /\ UNCHANGED photoVars
    /\ UNCHANGED endpointVars
    /\ UNCHANGED callVars

NextClassify ==
    \/ DetermineSeverity
    \/ DetermineCurveLocation
    \/ DetermineSchrothType

SpecClassify == InitClassify /\ [][NextClassify]_vars

MaxAngleIn(locs) ==
    LET A == {m.angle : m \in {c \in Range(cobb_angles) : c.curve_location \in locs}}
    IN  IF A = {} THEN 0 ELSE CHOOSE a \in A : \A b \in A : b <= a

FloorTenth(x) == CHOOSE k \in 0..x : 10 * k <= x /\ x < 10 * (k + 1)

\* C9: determine_curve_location compares the midpoint (upper_idx +
\* lower_idx) / 2 with thoracic_end and lumbar_start: 9 and 13 when total >=
\* 15, floor(0.6 total) and floor(0.8 total) when 10 <= total < 15,
\* floor(0.5 total) and floor(0.7 total) when total < 10; thoracic when
\* midpoint <= thoracic_end, else lumbar when midpoint >= lumbar_start, else
\* thoracolumbar.
C9_LocationBands ==
    pc = "located" =>
        LET total == segment.total_vertebrae
            mid2 == segment.upper_idx + segment.lower_idx
            thoracic_end == IF total >= 15 THEN 9
                            ELSE IF total >= 10 THEN FloorTenth(6 * total)
                            ELSE FloorTenth(5 * total)
            lumbar_start == IF total >= 15 THEN 13
                            ELSE IF total >= 10 THEN FloorTenth(8 * total)
                            ELSE FloorTenth(7 * total)
        IN  /\ mid2 <= 2 * thoracic_end => location = "thoracic"
            /\ (mid2 > 2 * thoracic_end /\ mid2 >= 2 * lumbar_start)
                  => location = "lumbar"
            /\ (mid2 > 2 * thoracic_end /\ mid2 < 2 * lumbar_start)
                  => location = "thoracolumbar"

\* 12 vertebrae (bands 7 and 9): a segment whose midpoint 8.5 lies between
C9_Witness ==
    /\ pc = "located"
    /\ segment = [upper_idx |-> 7, lower_idx |-> 10, total_vertebrae |-> 12]
    /\ location = "thoracolumbar"

(***************************************************************************)
(* photo_analysis/mediapipe_analyzer.py: assess_risk_level.                *)
(* hai_score and the percentages are in tenths, the rotation scores in     *)
(* ten-thousandths, as calculate_asymmetry_metrics rounds them.            *)
(***************************************************************************)
ClinicalFinding(measurement, value, unit, sev) ==
    [measurement |-> measurement, value |-> value, unit |-> unit, severity |-> sev]

\* what one block of assess_risk_level appends and adds
Block(finding, score) == [findings |-> <<finding>>, score |-> score]
NoFinding == [findings |-> << >>, score |-> 0]

\* Fault variant: an HAI equal to a threshold already triggers its tier
HaiBlockInclusive(m) ==
    LET F(sev) == ClinicalFinding("Height Asymmetry Index (HAI)", m.hai_score, "/100", sev)
    IN  IF m.hai_score >= 150 THEN Block(F("significant"), 30)
        ELSE IF m.hai_score >= 100 THEN Block(F("moderate"), 20)
        ELSE IF m.hai_score >= 50 THEN Block(F("mild"), 5)
        ELSE NoFinding

HaiBlock(m) ==
    LET F(sev) == ClinicalFinding("Height Asymmetry Index (HAI)", m.hai_score, "/100", sev)
    IN  IF m.hai_score > 150 THEN Block(F("significant"), 30)
        ELSE IF m.hai_score > 100 THEN Block(F("moderate"), 20)
        ELSE IF m.hai_score > 50 THEN Block(F("mild"), 5)
        ELSE NoFinding

WaistBlock(m) ==
    LET F(sev) == ClinicalFinding("Waist Crease Asymmetry", m.waist_height_diff_pct,
                                  "% of torso", sev)
    IN  IF m.waist_height_diff_pct > 30 THEN Block(F("significant"), 15)
        ELSE IF m.waist_height_diff_pct > 15 THEN Block(F("moderate"), 8)
        ELSE NoFinding

\* Fault variant: the axillary tiers named significant and moderate
AxillaBlockSignificantAndModerate(m) ==
    LET F(sev) == ClinicalFinding("Axillary Fold Asymmetry", m.axilla_height_diff_pct,
                                  "% of torso", sev)
    IN  IF m.axilla_height_diff_pct > 25 THEN Block(F("significant"), 10)
        ELSE IF m.axilla_height_diff_pct > 10 THEN Block(F("moderate"), 4)
        ELSE NoFinding

AxillaBlock(m) ==
    LET F(sev) == ClinicalFinding("Axillary Fold Asymmetry", m.axilla_height_diff_pct,
                                  "% of torso", sev)
    IN  IF m.axilla_height_diff_pct > 25 THEN Block(F("moderate"), 10)
        ELSE IF m.axilla_height_diff_pct > 10 THEN Block(F("mild"), 4)
        ELSE NoFinding

\* Fault variant: the significant tier starts above 5.0 instead of 4.0
ShoulderBlockSignificantAboveFive(m) ==
    LET F(sev) == ClinicalFinding("Shoulder Height Difference", m.shoulder_height_diff_pct,
                                  "% of torso", sev)
    IN  IF m.shoulder_height_diff_pct > 50 THEN Block(F("significant"), 15)
        ELSE IF m.shoulder_height_diff_pct > 20 THEN Block(F("moderate"), 8)
        ELSE IF m.shoulder_height_diff_pct > 10 THEN Block(F("mild"), 3)
        ELSE NoFinding

ShoulderBlock(m) ==
    LET F(sev) == ClinicalFinding("Shoulder Height Difference", m.shoulder_height_diff_pct,
                                  "% of torso", sev)
    IN  IF m.shoulder_height_diff_pct > 40 THEN Block(F("significant"), 15)
        ELSE IF m.shoulder_height_diff_pct > 20 THEN Block(F("moderate"), 8)
        ELSE IF m.shoulder_height_diff_pct > 10 THEN Block(F("mild"), 3)
        ELSE NoFinding

\* Fault variant: the significant tier of the trunk shift adds less than the
\* moderate tier
TrunkShiftBlockSignificantAddsFive(m) ==
    LET F(sev) == ClinicalFinding("Trunk Shift (Coronal Balance)", m.trunk_shift_pct,
                                  "% of shoulder width", sev)
    IN  IF m.trunk_shift_pct > 75 THEN Block(F("significant"), 5)
        ELSE IF m.trunk_shift_pct > 50 THEN Block(F("moderate"), 20)
        ELSE IF m.trunk_shift_pct > 25 THEN Block(F("mild"), 5)
        ELSE NoFinding

TrunkShiftBlock(m) ==
    LET F(sev) == ClinicalFinding("Trunk Shift (Coronal Balance)", m.trunk_shift_pct,
                                  "% of shoulder width", sev)
    IN  IF m.trunk_shift_pct > 75 THEN Block(F("significant"), 35)
        ELSE IF m.trunk_shift_pct > 50 THEN Block(F("moderate"), 20)
        ELSE IF m.trunk_shift_pct > 25 THEN Block(F("mild"), 5)
        ELSE NoFinding

HipBlock(m) ==
    LET F(sev) == ClinicalFinding("Hip/Pelvic Height Difference", m.hip_height_diff_pct,
                                  "% of torso", sev)
    IN  IF m.hip_height_diff_pct > 30 THEN Block(F("significant"), 20)
        ELSE IF m.hip_height_diff_pct > 15 THEN Block(F("moderate"), 10)
        ELSE NoFinding

ShoulderRotationBlock(m) ==
    IF m.shoulder_rotation_score > 800
    THEN Block(ClinicalFinding("Shoulder Rotation Asymmetry",
                               m.shoulder_rotation_score, "ratio", "moderate"), 10)
    ELSE NoFinding

HipRotationBlock(m) ==
    IF m.hip_rotation_score > 800
    THEN Block(ClinicalFinding("Hip Rotation Asymmetry",
                               m.hip_rotation_score, "ratio", "moderate"), 10)
    ELSE NoFinding

\* the blocks in the order assess_risk_level runs them
RiskBlocks(m) ==
    <<HaiBlock(m), WaistBlock(m), AxillaBlock(m), ShoulderBlock(m),
      TrunkShiftBlock(m), HipBlock(m), ShoulderRotationBlock(m),
      HipRotationBlock(m)>>

RECURSIVE ConcatFindings(_)
ConcatFindings(blocks) ==
    IF blocks = << >> THEN << >>
    ELSE Head(blocks).findings \o ConcatFindings(Tail(blocks))

\* risk_score after every block has added its contribution
RiskScore(m) ==
    LET blocks == RiskBlocks(m)
    IN  SumSeq([i \in 1..Len(blocks) |-> blocks[i].score])

SeverityPrefix(sev) ==
    CASE sev = "significant" -> "warning"
      [] sev = "moderate" -> "half"
      [] sev = "mild" -> "circle"
      [] sev = "normal" -> "check"
      [] OTHER -> ""

RECURSIVE RiskFactorLines(_)
\* two lines per finding: the prefixed summary and the clinical context
RiskFactorLines(fs) ==
    IF fs = << >> THEN << >>
    ELSE <<[line |-> "summary", prefix |-> SeverityPrefix(Head(fs).severity),
            measurement |-> Head(fs).measurement, severity |-> Head(fs).severity],
           [line |-> "context", prefix |-> "",
            measurement |-> Head(fs).measurement, severity |-> Head(fs).severity]>>
         \o RiskFactorLines(Tail(fs))

NoAsymmetryLines ==
    <<[line |-> "summary", prefix |-> "check",
       measurement |-> "No significant postural asymmetries detected",
       severity |-> "normal"],
      [line |-> "context", prefix |-> "",
       measurement |-> "All measurements within normal population variation",
       severity |-> "normal"]>>

\* Fault variant: a score equal to a cut-off stays in the lower level
RiskLevelOfStrict(score) ==
    IF score > 50 THEN "HIGH" ELSE IF score > 25 THEN "MEDIUM" ELSE "LOW"

\* Fault variant: the medium block is chosen from 30 on, not from 25
RecommendationsOfLateMedium(score) ==
    IF score >= 50
    THEN <<"CLINICAL EVALUATION RECOMMENDED", "These findings suggest",
           "NEXT STEPS", "IMPORTANT">>
    ELSE IF score >= 30
    THEN <<"MONITORING ADVISED", "These findings alone", "SUGGESTED ACTIONS",
           "CONTEXT: School scoliosis screening">>
    ELSE <<"REASSURING FINDINGS", "CONTEXT: Studies show", "MAINTENANCE",
           "FOLLOW-UP">>

RiskLevelOf(score) ==
    IF score >= 50 THEN "HIGH" ELSE IF score >= 25 THEN "MEDIUM" ELSE "LOW"

\* the fixed text block chosen by the branch of the risk level
RecommendationsOf(score) ==
    IF score >= 50
    THEN <<"CLINICAL EVALUATION RECOMMENDED", "These findings suggest",
           "NEXT STEPS", "IMPORTANT">>
    ELSE IF score >= 25
    THEN <<"MONITORING ADVISED", "These findings alone", "SUGGESTED ACTIONS",
           "CONTEXT: School scoliosis screening">>
    ELSE <<"REASSURING FINDINGS", "CONTEXT: Studies show", "MAINTENANCE",
           "FOLLOW-UP">>

(***************************************************************************)
(* SpecRisk: assess_risk_level on a drawn metrics record.  Every metric is *)
(* drawn at each of its thresholds and MetricStep above it.                *)
(***************************************************************************)
AtAndAbove(thresholds) == thresholds \cup {t + MetricStep : t \in thresholds}

InitRisk ==
    /\ pc = "metrics"
    /\ \E hai \in AtAndAbove({50, 100, 150}) :
       \E waist \in AtAndAbove({15, 30}) :
       \E axilla \in AtAndAbove({10, 25}) :
       \E shoulder \in AtAndAbove({10, 20, 40}) :
       \E trunk \in AtAndAbove({25, 50, 75}) :
       \E hip \in AtAndAbove({15, 30}) :
       \E srot \in AtAndAbove({800}) :
       \E hrot \in AtAndAbove({800}) :
          metrics = [hai_score |-> hai,
                     waist_height_diff_pct |-> waist,
                     axilla_height_diff_pct |-> axilla,
                     shoulder_height_diff_pct |-> shoulder,
                     trunk_shift_pct |-> trunk,
                     hip_height_diff_pct |-> hip,
                     shoulder_rotation_score |-> srot,
                     hip_rotation_score |-> hrot]
    /\ risk_score = None
    /\ findings = None
    /\ risk_level = None
    /\ risk_factors = None
    /\ recommendations = None
    /\ vertebrae = None
    /\ xrayIdle
    /\ locationIdle
    /\ endpointIdle
    /\ callIdle

AssessRiskLevel ==
    /\ pc = "metrics"
    /\ findings' = ConcatFindings(RiskBlocks(metrics))
    /\ risk_score' = RiskScore(metrics)
    /\ risk_level' = RiskLevelOf(risk_score')
    /\ risk_factors' = RiskFactorLines(findings')
                       \o (IF risk_score' < 25 /\ findings' = << >>
                           THEN NoAsymmetryLines ELSE << >>)
    /\ recommendations' = RecommendationsOf(risk_score')
    /\ pc' = "assessed"
    /\ UNCHANGED <<metrics, segment, location>>
    /\ UNCHANGED xrayVars
    /\ UNCHANGED endpointVars
    /\ UNCHANGED callVars

NextRisk == AssessRiskLevel

SpecRisk == InitRisk /\ [][NextRisk]_vars

(***************************************************************************)
(* Properties of the risk engine (checked under SpecRisk).                 *)
(***************************************************************************)
\* the contribution of the highest tier whose threshold v strictly exceeds:
\* tiers is a set of <<threshold, contribution>>
TierContribution(v, tiers) ==
    LET hit == {t \in tiers : v > t[1]}
    IN  IF hit = {} THEN 0
        ELSE (CHOOSE t \in hit : \A u \in hit : u[1] <= t[1])[2]

\* C10: the risk score is the sum over the eight metrics of the contribution
\* of the highest tier whose threshold is strictly exceeded (0 if none), with
\* the thresholds and contributions of the table; a value equal to a
\* threshold does not trigger the tier, and the sum is not capped.
C10_RiskScoreIsSumOfTiers ==
    pc = "assessed" =>
        risk_score =
              TierContribution(metrics.hai_score, {<<150, 30>>, <<100, 20>>, <<50, 5>>})
            + TierContribution(metrics.waist_height_diff_pct, {<<30, 15>>, <<15, 8>>})
            + TierContribution(metrics.axilla_height_diff_pct, {<<25, 10>>, <<10, 4>>})
            + TierContribution(metrics.shoulder_height_diff_pct,
                               {<<40, 15>>, <<20, 8>>, <<10, 3>>})
            + TierContribution(metrics.trunk_shift_pct, {<<75, 35>>, <<50, 20>>, <<25, 5>>})
            + TierContribution(metrics.hip_height_diff_pct, {<<30, 20>>, <<15, 10>>})
            + TierContribution(metrics.shoulder_rotation_score, {<<800, 10>>})
            + TierContribution(metrics.hip_rotation_score, {<<800, 10>>})

\* every metric above its top threshold: the uncapped sum 145; HAI exactly at
\* a threshold counts for the tier below
C10_Witness ==
    /\ pc = "assessed"
    /\ metrics.hai_score = 150
    /\ metrics.trunk_shift_pct > 75
    /\ metrics.waist_height_diff_pct > 30
    /\ metrics.axilla_height_diff_pct > 25
    /\ metrics.shoulder_height_diff_pct > 40
    /\ metrics.hip_height_diff_pct > 30
    /\ metrics.shoulder_rotation_score > 800
    /\ metrics.hip_rotation_score > 800
    /\ risk_score = 135

\* C11: the risk level is high exactly when the accumulated score is at least
\* 50, medium exactly when it is at least 25 and below 50, low exactly when
\* it is below 25.
C11_RiskLevelCutoffs ==
    pc = "assessed" =>
        /\ (risk_level = "HIGH") <=> (risk_score >= 50)
        /\ (risk_level = "MEDIUM") <=> (25 <= risk_score /\ risk_score < 50)
        /\ (risk_level = "LOW") <=> (risk_score < 25)

\* a score exactly on the medium cut-off: moderate HAI (20) and mild trunk
\* shift (5) and nothing else
C11_Witness ==
    /\ pc = "assessed"
    /\ risk_score = 25
    /\ risk_level = "MEDIUM"

\* the recommendation block of a risk level, a function of the level alone
BlockOfLevel(level) ==
    CASE level = "HIGH" ->
           <<"CLINICAL EVALUATION RECOMMENDED", "These findings suggest",
             "NEXT STEPS", "IMPORTANT">>
      [] level = "MEDIUM" ->
           <<"MONITORING ADVISED", "These findings alone", "SUGGESTED ACTIONS",
             "CONTEXT: School scoliosis screening">>
      [] level = "LOW" ->
           <<"REASSURING FINDINGS", "CONTEXT: Studies show", "MAINTENANCE",
             "FOLLOW-UP">>

\* C13: the recommendation list depends only on the risk level: every
\* assessed record carries the one block of its level, so two records with
\* the same level carry identical lists whatever findings fired.
C13_RecommendationsDependOnLevelOnly ==
    pc = "assessed" => recommendations = BlockOfLevel(risk_level)

\* a medium result whose only findings are the two rotation findings and a
\* mild HAI: the same block as any other medium result
C13_Witness ==
    /\ pc = "assessed"
    /\ risk_level = "MEDIUM"
    /\ risk_score = 25
    /\ Len(findings) = 3
    /\ recommendations[1] = "MONITORING ADVISED"

(***************************************************************************)
(* photo_analysis/mediapipe_analyzer.py and api/routes.py: the asymmetry   *)
(* metrics of a back photo.                                                *)
(* A landmark coordinate (x, y, z) is in thousandths of the normalised     *)
(* unit; a derived landmark (waist, axilla) is in hundred-thousandths,     *)
(* which keeps WAIST_RATIO = 0.62, AXILLA_VERTICAL_RATIO = 0.18 and        *)
(* AXILLA_HORIZONTAL_INSET = 0.02 exact; a scapula prominence is in        *)
(* two-thousandths.  A quotient of two lengths is kept as an exact         *)
(* fraction [n, d] until the code rounds it.                               *)
(***************************************************************************)
Landmark(x, y, z) == [x |-> x, y |-> y, z |-> z]

LandmarkPosition(x, y) == [x |-> x, y |-> y]

\* Python None as a value of an optional field
PyNone == "None"

\* round(n / d, 0) for n >= 0, d > 0: ties go to the even neighbour
RoundRatio(n, d) ==
    LET q == n \div d
        r == n % d
    IN  IF 2 * r > d THEN q + 1
        ELSE IF 2 * r < d THEN q
        ELSE IF q % 2 = 0 THEN q ELSE q + 1

RoundSigned(n, d) == IF n >= 0 THEN RoundRatio(n, d) ELSE -RoundRatio(-n, d)

Ratio(n, d) == [n |-> n, d |-> d]

\* round(p, 1) of a fraction p, in tenths
Tenths(p) == RoundRatio(10 * p.n, p.d)

estimate_derived_landmarks(lms) ==
    LET ls == lms.left_shoulder
        rs == lms.right_shoulder
        lh == lms.left_hip
        rh == lms.right_hip
        le == lms.left_elbow
        re == lms.right_elbow
    IN  [left_waist  |-> Landmark(100 * ls.x + 62 * (lh.x - ls.x),
                                  100 * ls.y + 62 * (lh.y - ls.y),
                                  100 * ls.z + 62 * (lh.z - ls.z)),
         right_waist |-> Landmark(100 * rs.x + 62 * (rh.x - rs.x),
                                  100 * rs.y + 62 * (rh.y - rs.y),
                                  100 * rs.z + 62 * (rh.z - rs.z)),
         \* 0.02 * (shoulder_mid_x - x) = 0.01 * (other shoulder x - x)
         left_axilla  |-> Landmark(100 * ls.x + (rs.x - ls.x),
                                   100 * ls.y + 18 * (lh.y - ls.y),
                                   100 * ls.z),
         right_axilla |-> Landmark(100 * rs.x + (ls.x - rs.x),
                                   100 * rs.y + 18 * (rh.y - rs.y),
                                   100 * rs.z),
         left_scapula_prominence  |-> 2 * Abs(ls.z) + Abs(le.z - ls.z),
         right_scapula_prominence |-> 2 * Abs(rs.z) + Abs(re.z - rs.z)]

\* (abs(diff_px) / torso_height_px) * 100 when torso_height_px > 0, else 0.0;
\* diff in hundred-thousandths of the image height, torso2 twice the torso
\* height in thousandths; the image height cancels in the quotient
HeightPct(diff, torso2, h) ==
    IF torso2 * h > 0 THEN Ratio(2 * Abs(diff), torso2) ELSE Ratio(0, 1)

\* (abs(trunk_shift_px) / shoulder_width_px) * 100 when shoulder_width_px > 0,
\* else 0.0; trunk2 twice the shift, both in thousandths of the image width
TrunkShiftPct(trunk2, width, w) ==
    IF width * w > 0 THEN Ratio(50 * Abs(trunk2), width) ELSE Ratio(0, 1)

\* Fault variant: the HAI is not capped at 100
HaiScoreUncapped(shoulder, axilla, waist, torso2, h) ==
    IF torso2 * h > 0
    THEN Ratio(2 * (Abs(shoulder) + Abs(axilla) + Abs(waist)), torso2)
    ELSE Ratio(0, 1)

\* min(100, (total_height_asymmetry / torso_height_px) * 100), or 0.0
HaiScore(shoulder, axilla, waist, torso2, h) ==
    IF torso2 * h > 0
    THEN LET raw == Ratio(2 * (Abs(shoulder) + Abs(axilla) + Abs(waist)), torso2)
         IN  IF raw.n >= 100 * raw.d THEN Ratio(100, 1) ELSE raw
    ELSE Ratio(0, 1)

\* min(cap, k * p) for a fraction p
Capped(cap, k, p) ==
    IF k * p.n >= cap * p.d THEN Ratio(cap, 1) ELSE Ratio(k * p.n, p.d)

RECURSIVE SumOver(_, _)
\* the sum of the fractions of terms as a numerator over den, a common
\* multiple of their denominators
SumOver(terms, den) ==
    IF terms = << >> THEN 0
    ELSE Head(terms).n * (den \div Head(terms).d) + SumOver(Tail(terms), den)

\* round(min(100, score), 1) in tenths, score the sum of terms
ScoreTenths(terms, den) ==
    LET total == SumOver(terms, den)
    IN  IF total >= 100 * den THEN 1000
        ELSE 10 * (total \div den) + RoundRatio(10 * (total % den), den)

\* the fields of the dataclass AsymmetryMetrics of the analyzer
AnalyzerMetricsFields ==
    {"shoulder_height_diff_px", "hip_height_diff_px", "trunk_shift_px",
     "waist_height_diff_px", "axilla_height_diff_px", "scapula_prominence_diff",
     "shoulder_rotation_score", "hip_rotation_score", "hai_score",
     "overall_asymmetry_score", "shoulder_height_diff_pct",
     "hip_height_diff_pct", "trunk_shift_pct", "waist_height_diff_pct",
     "axilla_height_diff_pct"}

\* the dataclass constructor called with keyword arguments accepts them when
\* every keyword is a field and the three fields without default are given;
\* otherwise it raises TypeError
AnalyzerMetricsAccepts(kwargs) ==
    /\ DOMAIN kwargs \subseteq AnalyzerMetricsFields
    /\ {"shoulder_height_diff_px", "hip_height_diff_px", "trunk_shift_px"}
           \subseteq DOMAIN kwargs

\* obj.name succeeds when the object has the attribute; otherwise it raises
\* AttributeError
HasAttr(obj, name) == name \in DOMAIN obj

\* the pixel and percentage fields both computations round the same way:
\* pixels in tenths, percentages and scores in tenths
RoundedMetrics(shoulder, hip, waist, axilla, trunk2, torso2, width, w, h) ==
    [shoulder_height_diff_px |-> RoundSigned(shoulder * h, 10000),
     hip_height_diff_px |-> RoundSigned(hip * h, 10000),
     trunk_shift_px |-> RoundSigned(trunk2 * w, 200),
     waist_height_diff_px |-> RoundSigned(waist * h, 10000),
     axilla_height_diff_px |-> RoundSigned(axilla * h, 10000),
     hai_score |-> Tenths(HaiScore(shoulder, axilla, waist, torso2, h)),
     shoulder_height_diff_pct |-> Tenths(HeightPct(shoulder, torso2, h)),
     hip_height_diff_pct |-> Tenths(HeightPct(hip, torso2, h)),
     trunk_shift_pct |-> Tenths(TrunkShiftPct(trunk2, width, w)),
     waist_height_diff_pct |-> Tenths(HeightPct(waist, torso2, h)),
     axilla_height_diff_pct |-> Tenths(HeightPct(axilla, torso2, h))]

\* Fault variant: the trunk-shift term is capped at 40 instead of 25
FourTermsTrunkCapForty(shoulder, waist, axilla, trunk2, torso2, width, w, h) ==
    <<Capped(20, 8, HeightPct(shoulder, torso2, h)),
      Capped(20, 8, HeightPct(axilla, torso2, h)),
      Capped(20, 8, HeightPct(waist, torso2, h)),
      Capped(40, 5, TrunkShiftPct(trunk2, width, w))>>

\* the four terms both computations add to score
FourTerms(shoulder, waist, axilla, trunk2, torso2, width, w, h) ==
    <<Capped(20, 8, HeightPct(shoulder, torso2, h)),
      Capped(20, 8, HeightPct(axilla, torso2, h)),
      Capped(20, 8, HeightPct(waist, torso2, h)),
      Capped(25, 5, TrunkShiftPct(trunk2, width, w))>>

\* a common multiple of the denominators of the four terms
FourTermsDen(torso2, width, w, h) ==
    (IF torso2 * h > 0 THEN torso2 ELSE 1) * (IF width * w > 0 THEN width ELSE 1)

calculate_asymmetry_metrics(lms, image_width, image_height) ==
    LET ls == lms.left_shoulder
        rs == lms.right_shoulder
        lh == lms.left_hip
        rh == lms.right_hip
        derived == estimate_derived_landmarks(lms)
        shoulder == 100 * (rs.y - ls.y)
        hip == 100 * (rh.y - lh.y)
        waist == derived.right_waist.y - derived.left_waist.y
        axilla == derived.right_axilla.y - derived.left_axilla.y
        scapula == derived.right_scapula_prominence
                   - derived.left_scapula_prominence
        trunk2 == (ls.x + rs.x) - (lh.x + rh.x)
        shoulder_rotation == Abs(ls.z - rs.z)
        hip_rotation == Abs(lh.z - rh.z)
        torso2 == Abs((lh.y + rh.y) - (ls.y + rs.y))
        width == Abs(rs.x - ls.x)
        terms == FourTerms(shoulder, waist, axilla, trunk2, torso2, width,
                           image_width, image_height)
                 \o <<Capped(8, 4, Ratio(shoulder_rotation, 25)),
                      Capped(7, 7, Ratio(Abs(scapula), 100))>>
        den == 100 * FourTermsDen(torso2, width, image_width, image_height)
    IN  RoundedMetrics(shoulder, hip, waist, axilla, trunk2, torso2, width,
                       image_width, image_height)
        @@ [scapula_prominence_diff |-> 5 * scapula,
            shoulder_rotation_score |-> 10 * shoulder_rotation,
            hip_rotation_score |-> 10 * hip_rotation,
            overall_asymmetry_score |-> ScoreTenths(terms, den)]

\* api/routes.py: "right" if diff_px > 0 else "left" when the percentage is
\* at least SIDE_THRESHOLD = 0.5, else None
HigherSide(pct, diff_px) ==
    IF 2 * pct.n >= pct.d
    THEN IF diff_px > 0 THEN "right" ELSE "left"
    ELSE PyNone

\* api/routes.py, recalculate_metrics: the keyword arguments it hands to the
\* analyzer's AsymmetryMetrics; lm holds the eight LandmarkPosition
RecalculateKwargs(lm, w, h) ==
    LET shoulder == 100 * (lm.right_shoulder.y - lm.left_shoulder.y)
        hip == 100 * (lm.right_hip.y - lm.left_hip.y)
        waist == 100 * (lm.right_waist.y - lm.left_waist.y)
        axilla == 100 * (lm.right_axilla.y - lm.left_axilla.y)
        trunk2 == (lm.left_shoulder.x + lm.right_shoulder.x)
                  - (lm.left_hip.x + lm.right_hip.x)
        torso2 == Abs((lm.left_hip.y + lm.right_hip.y)
                      - (lm.left_shoulder.y + lm.right_shoulder.y))
        width == Abs(lm.right_shoulder.x - lm.left_shoulder.x)
    IN  RoundedMetrics(shoulder, hip, waist, axilla, trunk2, torso2, width, w, h)
        @@ [scapula_prominence_diff |-> 0,
            shoulder_rotation_score |-> 0,
            hip_rotation_score |-> 0,
            overall_asymmetry_score |->
                ScoreTenths(FourTerms(shoulder, waist, axilla, trunk2, torso2,
                                      width, w, h),
                            FourTermsDen(torso2, width, w, h)),
            higher_shoulder |-> HigherSide(HeightPct(shoulder, torso2, h),
                                           shoulder * h),
            higher_hip |-> HigherSide(HeightPct(hip, torso2, h), hip * h)]

\* the attributes both endpoints read from the analyzer's metrics object to
\* build the metrics of the response
ResponseMetricsFields ==
    {"shoulder_height_diff_pct", "hip_height_diff_pct", "trunk_shift_pct",
     "waist_height_diff_pct", "axilla_height_diff_pct",
     "shoulder_rotation_score", "hip_rotation_score",
     "scapula_prominence_diff", "hai_score", "overall_asymmetry_score",
     "higher_shoulder", "higher_hip"}

\* the reads succeed when the object has every attribute read
ResponseMetricsReadable(m) == \A f \in ResponseMetricsFields : HasAttr(m, f)

ResponseMetrics(m) == [f \in ResponseMetricsFields |-> m[f]]

HTTPError(status, code) == [success |-> FALSE, status |-> status, error_code |-> code]

Success(m, level, factors, recs) ==
    [success |-> TRUE, status |-> 200, metrics |-> m, risk_level |-> level,
     risk_factors |-> factors, recommendations |-> recs]

(***************************************************************************)
(* SpecPhoto: the two photo endpoints on drawn landmarks, and a direct     *)
(* call of calculate_angle_between_vectors on drawn vectors.               *)
(* The subject's left shoulder is at x = 0.6, y = 0.3; the other           *)
(* landmarks are drawn around an upright torso of about 0.2, with the      *)
(* degenerate cases (hips level with the shoulders, shoulders on one       *)
(* vertical line) included.                                                *)
(***************************************************************************)
ShoulderDiffs == {-10, -1, 0, 1, 10}
HipDiffs == {-3, 0, 3}
LeftHipYs == {300, 500, 505}
FoldDiffs == {-5, 0, 5}

\* the (x, y) positions of shoulders and hips both endpoints draw
TorsoPositions ==
    {[left_shoulder |-> LandmarkPosition(600, 300),
      right_shoulder |-> LandmarkPosition(rsx, 300 + sd),
      left_hip |-> LandmarkPosition(lhx, lhy),
      right_hip |-> LandmarkPosition(rhx, lhy + hd)] :
        rsx \in {400, 600}, sd \in ShoulderDiffs, lhx \in {580, 600},
        lhy \in LeftHipYs, rhx \in {400, 440}, hd \in HipDiffs}

\* detect_pose_landmarks found no pose: no landmark to read
NoPose == << >>

WithZ(p, z) == Landmark(p.x, p.y, z)

\* what detect_pose_landmarks returned: None, or the landmarks the metrics read
InitAnalyzePhoto ==
    /\ pc = "analyze_photo"
    /\ \/ landmarks = NoPose
       \/ \E t \in TorsoPositions :
          \E lsz \in {0, -50} : \E rsz \in {0, 50} : \E rhz \in {0, 100} :
          \E lez \in {0, 100} :
             landmarks = [left_shoulder |-> WithZ(t.left_shoulder, lsz),
                          right_shoulder |-> WithZ(t.right_shoulder, rsz),
                          left_hip |-> WithZ(t.left_hip, 0),
                          right_hip |-> WithZ(t.right_hip, rhz),
                          left_elbow |-> Landmark(650, 400, lez),
                          right_elbow |-> Landmark(350, 400, 0)]
    /\ \E h \in {500, 1000} : image = [width |-> 500, height |-> h]
    /\ computed = None
    /\ response = None
    /\ model_loaded = None
    /\ vertebrae = None
    /\ xrayIdle
    /\ locationIdle
    /\ photoIdle
    /\ callIdle

\* a RecalculateMetricsRequest: eight positions and two unconstrained ints
InitRecalculate ==
    /\ pc = "recalculate_metrics"
    /\ \E t \in TorsoPositions : \E ad \in FoldDiffs : \E wd \in FoldDiffs :
          landmarks = t @@ [left_axilla |-> LandmarkPosition(598, 336),
                            right_axilla |-> LandmarkPosition(402, 336 + ad),
                            left_waist |-> LandmarkPosition(590, 424),
                            right_waist |-> LandmarkPosition(410, 424 + wd)]
    /\ \E w \in {0, 500} : \E h \in {-500, 0, 500} :
          image = [width |-> w, height |-> h]
    /\ computed = None
    /\ response = None
    /\ model_loaded = None
    /\ vertebrae = None
    /\ xrayIdle
    /\ locationIdle
    /\ photoIdle
    /\ callIdle

\* the vectors handed to calculate_angle_between_vectors, the zero vector
\* among them
DrawnVectors ==
    {Keypoint(0, 0), Keypoint(20, 0), Keypoint(20, 4), Keypoint(20, -6),
     Keypoint(0, 20), Keypoint(-20, 0), Keypoint(-20, -4), Keypoint(-20, 6),
     Keypoint(1, 0), Keypoint(0, 1), Keypoint(1, 1), Keypoint(-1, -1),
     Keypoint(30, 27), Keypoint(-30, -27)}

InitAngle ==
    /\ pc = "angle"
    /\ \E v1 \in DrawnVectors : \E v2 \in DrawnVectors :
          args = [v1 |-> v1, v2 |-> v2]
    /\ result = None
    /\ vertebrae = None
    /\ xrayIdle
    /\ locationIdle
    /\ photoIdle
    /\ endpointIdle

InitPhoto == InitAnalyzePhoto \/ InitRecalculate \/ InitAngle

\* what assess_risk_level returns for a metrics object, with the findings
\* and the score it accumulated
assess_risk_level(m) ==
    LET fs == ConcatFindings(RiskBlocks(m))
        score == RiskScore(m)
    IN  [findings |-> fs,
         risk_score |-> score,
         risk_level |-> RiskLevelOf(score),
         risk_factors |-> RiskFactorLines(fs)
                          \o (IF score < 25 /\ fs = << >>
                              THEN NoAsymmetryLines ELSE << >>),
         recommendations |-> RecommendationsOf(score)]

\* the locals of the endpoint after assess_risk_level returned a
Assessed(m, a) ==
    /\ metrics' = m
    /\ findings' = a.findings
    /\ risk_score' = a.risk_score
    /\ risk_level' = a.risk_level
    /\ risk_factors' = a.risk_factors
    /\ recommendations' = a.recommendations

\* api/routes.py, analyze_photo from step 3 on: analyze_back_photo raises
\* ValueError without a pose (400); any exception while the response is
\* built is answered with 500 MODEL_ERROR
AnalyzePhoto ==
    /\ pc = "analyze_photo"
    /\ pc' = "responded"
    /\ IF DOMAIN landmarks = {}
       THEN /\ response' = HTTPError(400, "NO_SPINE_DETECTED")
            /\ UNCHANGED photoVars
       ELSE LET m == calculate_asymmetry_metrics(landmarks, image.width,
                                                 image.height)
                a == assess_risk_level(m)
            IN  /\ Assessed(m, a)
                /\ response' =
                       IF ResponseMetricsReadable(m)
                       THEN Success(ResponseMetrics(m), a.risk_level,
                                    a.risk_factors, a.recommendations)
                       ELSE HTTPError(500, "MODEL_ERROR")
    /\ UNCHANGED <<landmarks, image, computed, model_loaded, segment, location>>
    /\ UNCHANGED xrayVars
    /\ UNCHANGED callVars

\* api/routes.py, recalculate_metrics: any exception is answered with 500
\* CALCULATION_ERROR
RecalculateMetrics ==
    /\ pc = "recalculate_metrics"
    /\ pc' = "responded"
    /\ computed' = RecalculateKwargs(landmarks, image.width, image.height)
    /\ IF AnalyzerMetricsAccepts(computed')
       THEN LET a == assess_risk_level(computed')
            IN  /\ Assessed(computed', a)
                /\ response' =
                       IF ResponseMetricsReadable(computed')
                       THEN Success(ResponseMetrics(computed'), a.risk_level,
                                    a.risk_factors, a.recommendations)
                       ELSE HTTPError(500, "CALCULATION_ERROR")
       ELSE /\ response' = HTTPError(500, "CALCULATION_ERROR")
            /\ UNCHANGED photoVars
    /\ UNCHANGED <<landmarks, image, model_loaded, segment, location>>
    /\ UNCHANGED xrayVars
    /\ UNCHANGED callVars

CalculateAngleBetweenVectors ==
    /\ pc = "angle"
    /\ pc' = "returned"
    /\ \E angle \in angle_deg(args.v1, args.v2) : result' = angle
    /\ UNCHANGED <<args, segment, location>>
    /\ UNCHANGED xrayVars
    /\ UNCHANGED photoVars
    /\ UNCHANGED endpointVars

NextPhoto ==
    \/ AnalyzePhoto
    \/ RecalculateMetrics
    \/ CalculateAngleBetweenVectors

SpecPhoto == InitPhoto /\ [][NextPhoto]_vars

(***************************************************************************)
(* Properties of the photo endpoints (checked under SpecPhoto).            *)
(***************************************************************************)
\* analyze_photo has answered a photo in which a pose was detected
LiveDone == pc = "responded" /\ "left_elbow" \in DOMAIN landmarks

\* recalculate_metrics has answered a request
ManualDone == pc = "responded" /\ "left_waist" \in DOMAIN landmarks

\* torso_height_px in two-thousandths of a pixel, from the landmarks
TorsoHeightPx2000 ==
    Abs((landmarks.left_hip.y + landmarks.right_hip.y)
        - (landmarks.left_shoulder.y + landmarks.right_shoulder.y)) * image.height

\* shoulder_width_px in thousandths of a pixel, from the landmarks
ShoulderWidthPx1000 ==
    Abs(landmarks.right_shoulder.x - landmarks.left_shoulder.x) * image.width

\* shoulder and hip height differences (right minus left) in thousandths of
\* a pixel
ShoulderDiffPx1000 ==
    (landmarks.right_shoulder.y - landmarks.left_shoulder.y) * image.height

HipDiffPx1000 == (landmarks.right_hip.y - landmarks.left_hip.y) * image.height

\* the shoulder finding assess_risk_level emitted, if any
ShoulderFindings ==
    {i \in 1..Len(findings) : findings[i].measurement = "Shoulder Height Difference"}

\* what the seven other metrics add to the risk score
OtherContributions ==
      TierContribution(metrics.hai_score, {<<150, 30>>, <<100, 20>>, <<50, 5>>})
    + TierContribution(metrics.waist_height_diff_pct, {<<30, 15>>, <<15, 8>>})
    + TierContribution(metrics.axilla_height_diff_pct, {<<25, 10>>, <<10, 4>>})
    + TierContribution(metrics.trunk_shift_pct, {<<75, 35>>, <<50, 20>>, <<25, 5>>})
    + TierContribution(metrics.hip_height_diff_pct, {<<30, 20>>, <<15, 10>>})
    + TierContribution(metrics.shoulder_rotation_score, {<<800, 10>>})
    + TierContribution(metrics.hip_rotation_score, {<<800, 10>>})

\* a shoulder height difference of 5 px over a torso height of 100 px
FivePxOverHundred ==
    /\ LiveDone
    /\ Abs(ShoulderDiffPx1000) = 5000
    /\ TorsoHeightPx2000 = 200000

\* C12 as stated: 5 px over 100 px give shoulder_height_diff_pct = 5.0, a
\* shoulder finding of severity moderate and +8 on the risk score.
C12_AsStated ==
    FivePxOverHundred =>
        /\ metrics.shoulder_height_diff_pct = 50
        /\ \E i \in ShoulderFindings : findings[i].severity = "moderate"
        /\ risk_score = OtherContributions + 8

\* C12 amended: 5 px over 100 px give shoulder_height_diff_pct = 5.0, which
\* exceeds 4.0: the one shoulder finding has severity significant and the
\* risk score gets +15.
C12_FivePercentIsSignificant ==
    FivePxOverHundred =>
        /\ metrics.shoulder_height_diff_pct = 50
        /\ Cardinality(ShoulderFindings) = 1
        /\ \A i \in ShoulderFindings : findings[i].severity = "significant"
        /\ risk_score = OtherContributions + 15

C12_Witness ==
    /\ FivePxOverHundred
    /\ metrics.shoulder_height_diff_px = 50
    /\ metrics.shoulder_height_diff_pct = 50
    /\ risk_score >= 15

\* the metrics an endpoint computed: the object calculate_asymmetry_metrics
\* returned, or the values recalculate_metrics computed
PhotoMetrics == IF LiveDone THEN metrics ELSE computed

\* C14: the hai_score and the overall_asymmetry_score of the live path and
\* of the manual recalculation path lie in [0, 100] (in tenths: 0..1000), for
\* every landmark input and every image size drawn, positive or not.
C14_ScoresWithinZeroAndHundred ==
    (LiveDone \/ ManualDone) =>
        /\ PhotoMetrics.hai_score \in 0..1000
        /\ PhotoMetrics.overall_asymmetry_score \in 0..1000

\* positive image size, hips almost level with the shoulders: the height
\* differences exceed the torso height and the HAI is cut at 100
C14_Witness ==
    /\ ManualDone
    /\ image.width > 0 /\ image.height > 0
    /\ TorsoHeightPx2000 > 0
    /\ 2 * (Abs(landmarks.right_axilla.y - landmarks.left_axilla.y)
            + Abs(landmarks.right_waist.y - landmarks.left_waist.y)) * image.height
           > TorsoHeightPx2000
    /\ computed.hai_score = 1000

\* hundredths of a point a capped term adds for a rounded percentage (tenths)
TermHundredths(cap, k, pct) == IF k * pct * 10 >= cap * 100 THEN cap * 100 ELSE k * pct * 10

\* the four capped terms, from the rounded percentages, in hundredths
FourTermSum(m) ==
      TermHundredths(20, 8, m.shoulder_height_diff_pct)
    + TermHundredths(20, 8, m.axilla_height_diff_pct)
    + TermHundredths(20, 8, m.waist_height_diff_pct)
    + TermHundredths(25, 5, m.trunk_shift_pct)

\* the rotation term (cap 8) and the scapula term (cap 7), in hundredths
RotationTerms(m) ==
      (IF 16 * m.shoulder_rotation_score >= 8000 THEN 800
       ELSE (16 * m.shoulder_rotation_score) \div 10)
    + (IF 14 * Abs(m.scapula_prominence_diff) >= 7000 THEN 700
       ELSE (14 * Abs(m.scapula_prominence_diff)) \div 10)

\* C15: the manual path's score is the sum of the four capped terms and never
\* exceeds 85; the live path's score is the sum of the six capped terms, cut
\* at 100.  The terms are recomputed from the rounded percentages, so the
\* sums agree up to the rounding of the four percentages (1.5 points).
C15_ManualScoreAtMostEightyFive ==
    /\ ManualDone =>
          /\ computed.overall_asymmetry_score <= 850
          /\ Abs(10 * computed.overall_asymmetry_score - FourTermSum(computed)) <= 150
    /\ LiveDone =>
          LET six == FourTermSum(metrics) + RotationTerms(metrics)
          IN  /\ metrics.overall_asymmetry_score <= 1000
              /\ Abs(10 * metrics.overall_asymmetry_score
                     - (IF six > 10000 THEN 10000 ELSE six)) <= 150

\* the live path with all six terms at their caps: the score is 100
C15_Witness ==
    /\ LiveDone
    /\ metrics.shoulder_rotation_score >= 500
    /\ Abs(metrics.scapula_prominence_diff) >= 500
    /\ FourTermSum(metrics) = 8500
    /\ metrics.overall_asymmetry_score = 1000

\* the side indicator the sidedness rule gives for a height difference (in
\* thousandths of a pixel): set when the percentage of the torso height is at
\* least 0.5, "right" for a positive difference, "left" otherwise
ExpectedSide(diff_px1000) ==
    IF TorsoHeightPx2000 > 0 /\ 400 * Abs(diff_px1000) >= TorsoHeightPx2000
    THEN IF diff_px1000 > 0 THEN "right" ELSE "left"
    ELSE PyNone

\* C16 as stated: the metrics returned for a back photo carry higher_shoulder
\* and higher_hip as the sidedness rule gives them.
C16_AsStated ==
    (LiveDone \/ ManualDone) =>
        /\ response.success
        /\ response.metrics.higher_shoulder = ExpectedSide(ShoulderDiffPx1000)
        /\ response.metrics.higher_hip = ExpectedSide(HipDiffPx1000)

\* a request or photo the endpoints call well-formed: all landmarks present
\* and a positive image size
WellFormedDone ==
    /\ LiveDone \/ ManualDone
    /\ image.width > 0
    /\ image.height > 0

\* C17 as stated: for well-formed input both endpoints return a success
\* result, never an error response.
C17_AsStated == WellFormedDone => response.success /\ response.status = 200

\* C19: degenerate geometry yields the fallback value: with
\* torso_height_px <= 0 the four height percentages and the HAI score are 0;
\* with shoulder_width_px <= 0 trunk_shift_pct is 0; with a zero-magnitude
\* vector calculate_angle_between_vectors returns 0.
C19_DegenerateGeometryFallsBack ==
    /\ (LiveDone \/ ManualDone) /\ TorsoHeightPx2000 <= 0 =>
          /\ PhotoMetrics.shoulder_height_diff_pct = 0
          /\ PhotoMetrics.hip_height_diff_pct = 0
          /\ PhotoMetrics.waist_height_diff_pct = 0
          /\ PhotoMetrics.axilla_height_diff_pct = 0
          /\ PhotoMetrics.hai_score = 0
    /\ (LiveDone \/ ManualDone) /\ ShoulderWidthPx1000 <= 0 =>
          PhotoMetrics.trunk_shift_pct = 0
    /\ pc = "returned" /\ (args.v1 = Keypoint(0, 0) \/ args.v2 = Keypoint(0, 0)) =>
          result = 0

\* a request with a negative image height: the torso height is negative, the
\* shoulders differ, and the percentages fall back to 0
C19_Witness ==
    /\ ManualDone
    /\ TorsoHeightPx2000 < 0
    /\ ShoulderDiffPx1000 # 0
    /\ landmarks.right_waist.y # landmarks.left_waist.y
    /\ computed.shoulder_height_diff_pct = 0
    /\ computed.hai_score = 0

(***************************************************************************)
(* scoliovis/postprocessing.py: filter_spatial_outliers.                   *)
(* A box is [x1, y1, x2, y2] in whole pixels; a centre is kept as twice    *)
(* its value (x1 + x2) and the MAD as ten times its value, so that         *)
(* 0.3 * width and 2.5 * MAD stay exact.  The scores and keypoints are     *)
(* selected by the same mask as the boxes.                                 *)
(***************************************************************************)
Box(x1, y1, x2, y2) == [x1 |-> x1, y1 |-> y1, x2 |-> x2, y2 |-> y2]

RECURSIVE InsertAscending(_, _, _)
\* the index i inserted into the index list by ascending value, after the
\* indices of equal value
InsertAscending(i, idxs, vals) ==
    IF idxs = << >> THEN <<i>>
    ELSE IF At(vals, i) < At(vals, Head(idxs)) THEN <<i>> \o idxs
    ELSE <<Head(idxs)>> \o InsertAscending(i, Tail(idxs), vals)

RECURSIVE ArgSortUpTo(_, _)
\* torch.argsort of the first n values (0-based indices)
ArgSortUpTo(vals, n) ==
    IF n = 0 THEN << >>
    ELSE InsertAscending(n - 1, ArgSortUpTo(vals, n - 1), vals)

ArgSort(vals) == ArgSortUpTo(vals, Len(vals))

\* torch.median: of an even number of values, the lower of the two middle ones
TorchMedian(vals) ==
    LET order == ArgSort(vals)
    IN  At(vals, At(order, (Len(vals) - 1) \div 2))

\* twice abs(center_x - median_x), per box
XDeviations(boxes) ==
    LET center_x == [i \in 1..Len(boxes) |-> boxes[i].x1 + boxes[i].x2]
        median_x == TorchMedian(center_x)
    IN  [i \in 1..Len(boxes) |-> Abs(center_x[i] - median_x)]

\* x_deviations <= 2.5 * max(mad_x, 0.3 * median width), as the set of
\* 0-based indices the mask keeps
XInliers(boxes) ==
    LET devs == XDeviations(boxes)
        widths == [i \in 1..Len(boxes) |-> boxes[i].x2 - boxes[i].x1]
        mad_x == 5 * TorchMedian(devs)
        min_mad == 3 * TorchMedian(widths)
        mad == IF mad_x > min_mad THEN mad_x ELSE min_mad
    IN  {i \in 0..(Len(boxes) - 1) : 2 * At(devs, i) <= mad}

\* Fault variant: every box next to a gap above 2.0 * median_gap is dropped
YGapKeptAnyLargeGap(boxes) ==
    LET n == Len(boxes)
        center_y == [i \in 1..n |-> boxes[i].y1 + boxes[i].y2]
        y_sorted_indices == ArgSort(center_y)
        sorted_y == [i \in 1..n |-> At(center_y, y_sorted_indices[i])]
        gaps == [i \in 1..(n - 1) |-> sorted_y[i + 1] - sorted_y[i]]
        median_gap == TorchMedian(gaps)
        dropped == {At(y_sorted_indices, i) : i \in
                       {i \in 0..(n - 1) :
                           \/ i > 0 /\ At(gaps, i - 1) > 2 * median_gap
                           \/ i < Len(gaps) /\ At(gaps, i) > 2 * median_gap}}
    IN  (0..(n - 1)) \ dropped

\* y_gap_mask: the topmost box is dropped when the gap after it, and the
\* lowest box when the gap before it, exceeds 2.0 * median_gap
YGapKept(boxes) ==
    LET n == Len(boxes)
        center_y == [i \in 1..n |-> boxes[i].y1 + boxes[i].y2]
        y_sorted_indices == ArgSort(center_y)
        sorted_y == [i \in 1..n |-> At(center_y, y_sorted_indices[i])]
        gaps == [i \in 1..(n - 1) |-> sorted_y[i + 1] - sorted_y[i]]
        median_gap == TorchMedian(gaps)
        dropped == {At(y_sorted_indices, i) : i \in
                       {i \in 0..(n - 1) :
                           \/ /\ i > 0
                              /\ At(gaps, i - 1) > 2 * median_gap
                              /\ i = n - 1
                           \/ /\ i < Len(gaps)
                              /\ At(gaps, i) > 2 * median_gap
                              /\ i = 0}}
    IN  (0..(n - 1)) \ dropped

\* torch.topk(-x_deviations, 3): a set of three indices none of which is
\* farther from the median than an index left out; among equally distant
\* boxes the choice is the library's
ClosestThree(boxes) ==
    LET devs == XDeviations(boxes)
        all == 0..(Len(boxes) - 1)
    IN  {S \in SUBSET all :
            /\ Cardinality(S) = 3
            /\ \A i \in S : \A j \in all \ S : At(devs, i) <= At(devs, j)}

\* Fault variant: without the last fallback to the three closest boxes
KeepMasksWithoutClosestThree(boxes) ==
    LET x_inlier_mask == XInliers(boxes)
        keep_mask == x_inlier_mask \cap YGapKept(boxes)
    IN  IF Cardinality(keep_mask) >= 3 THEN {keep_mask} ELSE {x_inlier_mask}

\* the masks filter_spatial_outliers may end with, as sets of kept indices
KeepMasks(boxes) ==
    LET x_inlier_mask == XInliers(boxes)
        keep_mask == x_inlier_mask \cap YGapKept(boxes)
    IN  IF Cardinality(keep_mask) >= 3 THEN {keep_mask}
        ELSE IF Cardinality(x_inlier_mask) >= 3 THEN {x_inlier_mask}
        ELSE ClosestThree(boxes)

\* boxes[keep_mask]: the kept boxes in their original order
Masked(boxes, mask) ==
    LET order == SetToSortedSeq(mask)
    IN  [i \in 1..Len(order) |-> At(boxes, order[i])]

\* the results filter_spatial_outliers may return
filter_spatial_outliers(boxes) ==
    IF Len(boxes) < 3 THEN {boxes}
    ELSE {Masked(boxes, mask) : mask \in KeepMasks(boxes)}

(***************************************************************************)
(* SpecCore: direct calls of filter_spatial_outliers on drawn detections   *)
(* and of calculate_vertebra_tilt, is_pelvis_balanced and                  *)
(* get_vertebra_center on vertebrae with any number of keypoints.          *)
(* filter_detections hands over boxes sorted by their top edge: box i is   *)
(* 20 x 20, shifted sideways by one of XOffsets, and follows the previous  *)
(* one by one of YGaps.                                                    *)
(***************************************************************************)
XOffsets == {0, 4, 40}
YGaps == {30, 100}

RECURSIVE TopOf(_, _)
\* y1 of box i (1-based): the gaps up to i summed
TopOf(gaps, i) == IF i = 0 THEN 40 ELSE gaps[i] + TopOf(gaps, i - 1)

DrawnBoxes(offsets, gaps) ==
    [i \in 1..Len(offsets) |->
        Box(100 + offsets[i], TopOf(gaps, i), 120 + offsets[i], TopOf(gaps, i) + 20)]

InitFilter ==
    /\ pc = "filter"
    /\ \E n \in 0..MaxCandidates :
       \E offsets \in [1..n -> XOffsets] : \E gaps \in [1..n -> YGaps] :
          args = [boxes |-> DrawnBoxes(offsets, gaps)]
    /\ result = None
    /\ vertebrae = None
    /\ xrayIdle
    /\ locationIdle
    /\ photoIdle
    /\ endpointIdle

\* the keypoints a detection may carry: TL, TR, BL, BR and further points, of
\* which the first n are present
DrawnKeypoints(n, tr_dy, br_dy) ==
    [i \in 1..n |->
        CASE i = 1 -> Keypoint(100, 40)
          [] i = 2 -> Keypoint(120, 40 + tr_dy)
          [] i = 3 -> Keypoint(100, 60)
          [] i = 4 -> Keypoint(120, 60 + br_dy)
          [] OTHER -> Keypoint(110, 45 + i)]

\* one of the three core functions is called on a vertebra with n keypoints,
\* is_pelvis_balanced with that vertebra as the lowest of five
InitKeypoints ==
    /\ pc \in {"tilt", "pelvis", "center"}
    /\ \E n \in 0..MaxKeypoints : \E tr_dy \in {-6, 0, 4} : \E br_dy \in {0, 2, 6} :
          args = [keypoints |-> DrawnKeypoints(n, tr_dy, br_dy)]
    /\ result = None
    /\ vertebrae = None
    /\ xrayIdle
    /\ locationIdle
    /\ photoIdle
    /\ endpointIdle

InitCore == InitFilter \/ InitKeypoints

\* a call that returned normally
Returned(value) == [outcome |-> "returned", value |-> value]

FilterSpatialOutliers ==
    /\ pc = "filter"
    /\ pc' = "filtered"
    /\ \E kept \in filter_spatial_outliers(args.boxes) : result' = kept
    /\ UNCHANGED <<args, segment, location>>
    /\ UNCHANGED xrayVars
    /\ UNCHANGED photoVars
    /\ UNCHANGED endpointVars

CalculateVertebraTilt ==
    /\ pc = "tilt"
    /\ pc' = "tilt_done"
    /\ result' = Returned(calculate_vertebra_tilt(args.keypoints))
    /\ UNCHANGED <<args, segment, location>>
    /\ UNCHANGED xrayVars
    /\ UNCHANGED photoVars
    /\ UNCHANGED endpointVars

\* four well-formed vertebrae above the drawn one
IsPelvisBalanced ==
    /\ pc = "pelvis"
    /\ pc' = "pelvis_done"
    /\ result' = Returned(is_pelvis_balanced(
                     [i \in 1..4 |-> Vertebra(i - 1, ShapeKeypoints(VertebraShapes[1], i - 1))]
                     \o <<[index |-> 4, label |-> "T5", keypoints |-> args.keypoints,
                           tilt_angle |-> calculate_vertebra_tilt(args.keypoints)]>>))
    /\ UNCHANGED <<args, segment, location>>
    /\ UNCHANGED xrayVars
    /\ UNCHANGED photoVars
    /\ UNCHANGED endpointVars

GetVertebraCenter ==
    /\ pc = "center"
    /\ pc' = "center_done"
    /\ result' = Returned(get_vertebra_center(args.keypoints))
    /\ UNCHANGED <<args, segment, location>>
    /\ UNCHANGED xrayVars
    /\ UNCHANGED photoVars
    /\ UNCHANGED endpointVars

NextCore ==
    \/ FilterSpatialOutliers
    \/ CalculateVertebraTilt
    \/ IsPelvisBalanced
    \/ GetVertebraCenter

SpecCore == InitCore /\ [][NextCore]_vars

(***************************************************************************)
(* Properties of the direct calls (checked under SpecCore).                *)
(***************************************************************************)
\* C18 as stated: for a vertebra whose keypoint count is not exactly 4, none
\* of calculate_vertebra_tilt, is_pelvis_balanced and get_vertebra_center
\* returns a normal value.
C18_AsStated ==
    pc \in {"tilt_done", "pelvis_done", "center_done"} /\ Len(args.keypoints) # 4 =>
        result.outcome # "returned"

\* the 0-based indices of the input boxes that are in the result
KeptIndices ==
    {i \in 0..(Len(args.boxes) - 1) : \E j \in 1..Len(result) : result[j] = At(args.boxes, i)}

\* the 0-based index of a box in the input
InputIndex(b) == CHOOSE i \in 0..(Len(args.boxes) - 1) : At(args.boxes, i) = b

Detections(boxes, scores, keypoints) ==
    [boxes |-> boxes, scores |-> scores, keypoints |-> keypoints]

\* t[indices] for each of the three tensors (0-based indices)
Select(dets, indices) ==
    Detections([i \in 1..Len(indices) |-> At(dets.boxes, indices[i])],
               [i \in 1..Len(indices) |-> At(dets.scores, indices[i])],
               [i \in 1..Len(indices) |-> At(dets.keypoints, indices[i])])

\* scores >= confidence_threshold, as the indices the mask keeps
confident_mask(scores, confidence_threshold) ==
    SetToSortedSeq({i \in 0..(Len(scores) - 1) : At(scores, i) >= confidence_threshold})

BoxArea(b) == (b.x2 - b.x1) * (b.y2 - b.y1)

Intersection(a, b) ==
    LET w == (IF a.x2 < b.x2 THEN a.x2 ELSE b.x2) - (IF a.x1 > b.x1 THEN a.x1 ELSE b.x1)
        h == (IF a.y2 < b.y2 THEN a.y2 ELSE b.y2) - (IF a.y1 > b.y1 THEN a.y1 ELSE b.y1)
    IN  IF w > 0 /\ h > 0 THEN w * h ELSE 0

\* IoU(a, b) > iou_threshold, the threshold in tenths
Overlaps(a, b, iou_threshold) ==
    LET inter == Intersection(a, b)
    IN  10 * inter > iou_threshold * (BoxArea(a) + BoxArea(b) - inter)

RECURSIVE NmsLoop(_, _, _, _)
\* the boxes taken in the given order, each kept unless it overlaps a kept one
NmsLoop(boxes, order, kept, iou_threshold) ==
    IF order = << >> THEN kept
    ELSE LET i == Head(order)
             suppressed == \E k \in 1..Len(kept) :
                              Overlaps(At(boxes, i), At(boxes, kept[k]), iou_threshold)
         IN  NmsLoop(boxes, Tail(order),
                     IF suppressed THEN kept ELSE Append(kept, i), iou_threshold)

\* torchvision.ops.nms: the kept indices by decreasing score
nms(boxes, scores, iou_threshold) ==
    NmsLoop(boxes, ArgSort([i \in 1..Len(scores) |-> 0 - scores[i]]), << >>, iou_threshold)

\* torch.topk(scores, k).indices: k indices of the highest scores, as a set:
\* every index whose score is among the k - 1 highest values or above the
\* k-th, and as many of the indices at the k-th value as are needed; among
\* equal scores the choice is the library's
TopK(scores, k) ==
    LET all == 0..(Len(scores) - 1)
        Above(i) == {j \in all : At(scores, j) > At(scores, i)}
        kth == CHOOSE i \in all :
                  /\ Cardinality(Above(i)) < k
                  /\ Cardinality({j \in all : At(scores, j) >= At(scores, i)}) >= k
        above == Above(kth)
        ties == {j \in all : At(scores, j) = At(scores, kth)}
    IN  {above \cup T : T \in {U \in SUBSET ties : Cardinality(U) = k - Cardinality(above)}}

\* the indices of S by decreasing score, as topk returns them
OrderedByScore(S, scores) ==
    LET InS(i) == i \in S
    IN  SelectSeq(ArgSort([i \in 1..Len(scores) |-> 0 - scores[i]]), InS)

Tops(boxes) == [i \in 1..Len(boxes) |-> boxes[i].y1]

\* steps 1 to 4: what is left after the confidence filter, the suppression
\* of overlapping boxes, the sort by the top edge and the outlier rejection
Survivors(outputs, confidence_threshold, nms_threshold) ==
    LET confident == Select(outputs, confident_mask(outputs.scores, confidence_threshold))
        kept == Select(confident, nms(confident.boxes, confident.scores, nms_threshold))
        sorted == Select(kept, ArgSort(Tops(kept.boxes)))
    IN  IF Len(confident.boxes) = 0 THEN {confident}
        ELSE IF Len(sorted.boxes) >= 3
             THEN {Select(sorted, SetToSortedSeq(mask)) : mask \in KeepMasks(sorted.boxes)}
             ELSE {sorted}

\* Fault variant: the first max_detections in y order instead of the best
KeepTopKFirstInOrder(dets, max_detections) ==
    IF Len(dets.boxes) > max_detections
    THEN {Select(dets, [i \in 1..max_detections |-> i - 1])}
    ELSE {dets}

\* Fault variant: step 5 is left out
KeepTopKLeftOut(dets, max_detections) == {dets}

\* step 5: the max_detections best by score, sorted again by the top edge
KeepTopK(dets, max_detections) ==
    IF Len(dets.boxes) > max_detections
    THEN {LET selected == Select(dets, OrderedByScore(S, dets.scores))
          IN  Select(selected, ArgSort(Tops(selected.boxes)))
            : S \in TopK(dets.scores, max_detections)}
    ELSE {dets}

\* the results filter_detections may return
filter_detections(outputs, confidence_threshold, nms_threshold, max_detections) ==
    UNION {KeepTopK(dets, max_detections) :
             dets \in Survivors(outputs, confidence_threshold, nms_threshold)}

(***************************************************************************)
(* SpecDetect: direct calls of filter_detections.  Each raw detection is   *)
(* of one kind: its sideways shift, its distance below the previous one    *)
(* (2 = a second box on the same vertebra) and its score; the score of     *)
(* detection i is lowered by i, so that no two are equal.  The keypoints   *)
(* of a detection are the corners of its box.  The raw detections come in  *)
(* the detector's order, by decreasing score.                              *)
(***************************************************************************)
DetectionKinds ==
    <<[dx |-> 0,  gap |-> 30,  score |-> 90],
      [dx |-> 0,  gap |-> 30,  score |-> 60],
      [dx |-> 0,  gap |-> 30,  score |-> 40],
      [dx |-> 0,  gap |-> 2,   score |-> 80],
      [dx |-> 40, gap |-> 30,  score |-> 70],
      [dx |-> 0,  gap |-> 100, score |-> 95]>>

CornersOf(b) ==
    <<Keypoint(b.x1, b.y1), Keypoint(b.x2, b.y1), Keypoint(b.x1, b.y2), Keypoint(b.x2, b.y2)>>

\* the detections of the drawn kinds from top to bottom
DrawnDetections(kinds) ==
    LET boxes == DrawnBoxes([i \in 1..Len(kinds) |-> DetectionKinds[kinds[i]].dx],
                            [i \in 1..Len(kinds) |-> DetectionKinds[kinds[i]].gap])
    IN  Detections(boxes,
                   [i \in 1..Len(kinds) |-> DetectionKinds[kinds[i]].score - i],
                   [i \in 1..Len(kinds) |-> CornersOf(boxes[i])])

\* the detector's output: the detections by decreasing score
RawOutputs(kinds) ==
    LET dets == DrawnDetections(kinds)
    IN  Select(dets, ArgSort([i \in 1..Len(kinds) |-> 0 - dets.scores[i]]))

DEFAULT_CONFIDENCE_THRESHOLD == 50
DEFAULT_NMS_THRESHOLD == 3
DEFAULT_MAX_DETECTIONS == 17

InitDetect ==
    /\ pc = "filter_detections"
    /\ \E n \in 0..MaxDetections : \E kinds \in [1..n -> 1..Len(DetectionKinds)] :
       \E max_detections \in {2, 3, DEFAULT_MAX_DETECTIONS} :
          args = [outputs |-> RawOutputs(kinds),
                  confidence_threshold |-> DEFAULT_CONFIDENCE_THRESHOLD,
                  nms_threshold |-> DEFAULT_NMS_THRESHOLD,
                  max_detections |-> max_detections]
    /\ result = None
    /\ computed = None
    /\ vertebrae = None
    /\ xrayIdle
    /\ locationIdle
    /\ photoIdle
    /\ landmarks = None
    /\ image = None
    /\ response = None
    /\ model_loaded = None

\* computed holds the locals after step 4, result the returned dict
FilterDetections ==
    /\ pc = "filter_detections"
    /\ pc' = "detections_filtered"
    /\ \E dets \in Survivors(args.outputs, args.confidence_threshold, args.nms_threshold) :
          /\ computed' = dets
          /\ \E kept \in KeepTopK(dets, args.max_detections) : result' = kept
    /\ UNCHANGED <<args, segment, location, landmarks, image, response, model_loaded>>
    /\ UNCHANGED xrayVars
    /\ UNCHANGED photoVars

NextDetect == FilterDetections

SpecDetect == InitDetect /\ [][NextDetect]_vars

FilterDetectionsDone == pc = "detections_filtered"

\* the raw detection a returned entry stems from: box, score and keypoints
\* of one and the same input index
AlignedWithInput(i) ==
    \E j \in 1..Len(args.outputs.boxes) :
        /\ result.boxes[i] = args.outputs.boxes[j]
        /\ result.scores[i] = args.outputs.scores[j]
        /\ result.keypoints[i] = args.outputs.keypoints[j]

\* the survivors of outlier rejection that were not returned
DroppedScores ==
    {computed.scores[j] : j \in {k \in 1..Len(computed.scores) :
        \A i \in 1..Len(result.boxes) : result.boxes[i] # computed.boxes[k]}}

AngleReturned == pc = "returned"

NonZero(v) == v # Keypoint(0, 0)

Opposite(v) == Keypoint(0 - v.x, 0 - v.y)

\* a pair of vertebrae whose upper endplate vector is (1, 0) and whose lower
\* endplate vector is (0, 1)
PerpendicularPair ==
    <<[index |-> 0, label |-> "T1", tilt_angle |-> 0,
       keypoints |-> <<Keypoint(0, 0), Keypoint(1, 0), Keypoint(0, 5), Keypoint(1, 5)>>],
      [index |-> 1, label |-> "T2", tilt_angle |-> 0,
       keypoints |-> <<Keypoint(0, 10), Keypoint(1, 10), Keypoint(0, 15), Keypoint(0, 16)>>]>>

\* C22 as stated: calculate_angle_between_vectors(v, v) equals 0 and
\* calculate_angle_between_vectors(v, -v) equals 180 for every non-zero v,
\* the result is within [0, 180], and endplate vectors (1,0) and (0,1) give
\* a Cobb angle of 90.0.
C22_AsStated ==
    /\ AngleReturned =>
          /\ NonZero(args.v1) /\ args.v2 = args.v1 => result = 0
          /\ NonZero(args.v1) /\ args.v2 = Opposite(args.v1) => result = STRAIGHT
          /\ 0 <= result /\ result <= STRAIGHT
          /\ args.v1 = Keypoint(1, 0) /\ args.v2 = Keypoint(0, 1) =>
                RoundDiv(result, 1000000) = 900
    /\ calculate_cobb_angle_for_segment(PerpendicularPair, 0, 1) = 900

\* C22 (amended): calculate_angle_between_vectors(v, v) is within 10^-5
\* degree of 0 and calculate_angle_between_vectors(v, -v) within 10^-5 degree
\* of 180 for every non-zero v (0.0 and 180.0 once rounded to one decimal),
\* the result is within [0, 180], and endplate vectors (1,0) and (0,1) give
\* a Cobb angle of 90.0.  The result is in units of 10^-7 degree.
C22_ZeroAndStraightUpToRounding ==
    /\ AngleReturned =>
          /\ NonZero(args.v1) /\ args.v2 = args.v1 =>
                result <= 100 /\ RoundDiv(result, 1000000) = 0
          /\ NonZero(args.v1) /\ args.v2 = Opposite(args.v1) =>
                result >= STRAIGHT - 100 /\ RoundDiv(result, 1000000) = 1800
          /\ 0 <= result /\ result <= STRAIGHT
          /\ args.v1 = Keypoint(1, 0) /\ args.v2 = Keypoint(0, 1) =>
                RoundDiv(result, 1000000) = 900
    /\ calculate_cobb_angle_for_segment(PerpendicularPair, 0, 1) = 900

\* (1, 1) against (-1, -1): a little less than 180 degrees
C22_Witness ==
    /\ AngleReturned
    /\ args.v1 = Keypoint(1, 1)
    /\ args.v2 = Opposite(args.v1)
    /\ result = STRAIGHT - 12

(***************************************************************************)
(* C23: the vertical-gap rule of filter_spatial_outliers.  The drawn boxes *)
(* come in y order, so the position of a box in y order is its index.      *)
(***************************************************************************)
\* twice the distance of the centre of box i (0-based) to that of the next
GapBelow(i) ==
    (At(args.boxes, i + 1).y1 + At(args.boxes, i + 1).y2)
        - (At(args.boxes, i).y1 + At(args.boxes, i).y2)

MedianGap == TorchMedian([i \in 1..(Len(args.boxes) - 1) |-> GapBelow(i - 1)])

LastIndex == Len(args.boxes) - 1

\* C23: the vertical-gap rule rejects only the first or the last candidate
\* in y order, and only when its gap to its single neighbour exceeds 2.0
\* times the median gap: a candidate that is neither first nor last and
\* whose x-deviation is within 2.5 effective MADs is always kept.
C23_GapRuleOnlyAtTheEnds ==
    pc = "filtered" /\ Len(args.boxes) >= 3 =>
        /\ \A i \in XInliers(args.boxes) \ KeptIndices :
              \/ i = 0 /\ GapBelow(0) > 2 * MedianGap
              \/ i = LastIndex /\ GapBelow(LastIndex - 1) > 2 * MedianGap
        /\ \A i \in XInliers(args.boxes) : 0 < i /\ i < LastIndex => i \in KeptIndices

\* five candidates in line: the gap between the second and the third and the
\* gap before the last both exceed twice the median; the last is rejected,
\* the second and the third are kept
C23_Witness ==
    /\ pc = "filtered"
    /\ Len(args.boxes) = 5
    /\ XInliers(args.boxes) = 0..4
    /\ GapBelow(1) > 2 * MedianGap
    /\ GapBelow(3) > 2 * MedianGap
    /\ KeptIndices = 0..3

(***************************************************************************)
(* C24: the severity recorded on each finding.                             *)
(***************************************************************************)
\* the thresholds of a measurement from the highest down, in the units of the
\* metrics record
TableThresholds(measurement) ==
    CASE measurement = "Height Asymmetry Index (HAI)" -> <<150, 100, 50>>
      [] measurement = "Waist Crease Asymmetry" -> <<30, 15>>
      [] measurement = "Axillary Fold Asymmetry" -> <<25, 10>>
      [] measurement = "Shoulder Height Difference" -> <<40, 20, 10>>
      [] measurement = "Trunk Shift (Coronal Balance)" -> <<75, 50, 25>>
      [] measurement = "Hip/Pelvic Height Difference" -> <<30, 15>>
      [] measurement = "Shoulder Rotation Asymmetry" -> <<800>>
      [] measurement = "Hip Rotation Asymmetry" -> <<800>>

\* the position of the highest threshold the value of a finding exceeds
TriggeredTier(f) ==
    LET thresholds == TableThresholds(f.measurement)
    IN  CHOOSE k \in 1..Len(thresholds) :
            /\ f.value > thresholds[k]
            /\ \A j \in 1..(k - 1) : f.value <= thresholds[j]

\* the names of the table columns, from the first
ColumnNames == <<"significant", "moderate", "mild">>

\* the names the tiers of a measurement are recorded under
RecordedNames(measurement) ==
    CASE measurement = "Axillary Fold Asymmetry" -> <<"moderate", "mild">>
      [] measurement \in {"Shoulder Rotation Asymmetry", "Hip Rotation Asymmetry"} ->
           <<"moderate">>
      [] OTHER -> ColumnNames

\* C24 as stated: the severity recorded on each finding is the tier named by
\* the table column that holds the triggered threshold: significant for the
\* first column, moderate for the second, mild for the third.
C24_AsStated ==
    pc = "assessed" =>
        \A i \in 1..Len(findings) :
            findings[i].severity = ColumnNames[TriggeredTier(findings[i])]

\* C24 (amended): the severity recorded on each finding is the tier named by
\* the table column that holds the triggered threshold, except that axillary
\* fold % > 2.5 is recorded as moderate and > 1.0 as mild, and shoulder
\* rotation > 0.08 and hip rotation > 0.08 are recorded as moderate.
C24_SeverityOfFinding ==
    pc = "assessed" =>
        \A i \in 1..Len(findings) :
            findings[i].severity
                = RecordedNames(findings[i].measurement)[TriggeredTier(findings[i])]

\* an assessment with axillary, rotation and shoulder findings of the first
\* column
C24_Witness ==
    /\ pc = "assessed"
    /\ metrics.axilla_height_diff_pct > 25
    /\ metrics.shoulder_rotation_score > 800
    /\ metrics.shoulder_height_diff_pct > 40
    /\ \E i \in 1..Len(findings) :
          /\ findings[i].measurement = "Axillary Fold Asymmetry"
          /\ findings[i].severity = "moderate"
    /\ \E i \in 1..Len(findings) :
          /\ findings[i].measurement = "Shoulder Rotation Asymmetry"
          /\ findings[i].severity = "moderate"
    /\ \E i \in 1..Len(findings) :
          /\ findings[i].measurement = "Shoulder Height Difference"
          /\ findings[i].severity = "significant"

(***************************************************************************)
(* C25: the primary curve (checked under Spec).                            *)
(***************************************************************************)
Classified == pc = "classified"

\* the largest angle of the measurement list
LargestAngle == MaxOf([i \in 1..Len(cobb_angles) |-> cobb_angles[i].angle], 0)

MIN_VERTEBRAE == 5
MIN_CONFIDENCE == 30

ValidationError(error_code) == [type |-> "ValidationError", error_code |-> error_code]

\* raise HTTPException(status_code=503, detail="Model not loaded. ...")
ModelNotLoaded == [type |-> "HTTPException", status_code |-> 503]

NoException == [type |-> "none"]

\* what validate_detection_results raises on the filtered detections
validate_detection_results(filtered_outputs) ==
    LET boxes == filtered_outputs.boxes
        scores == filtered_outputs.scores
    IN  IF Len(boxes) = 0 THEN ValidationError("NO_SPINE_DETECTED")
        ELSE IF Len(boxes) < MIN_VERTEBRAE THEN ValidationError("INSUFFICIENT_VERTEBRAE")
        ELSE IF scores # << >> /\ SumSeq(scores) < MIN_CONFIDENCE * Len(scores)
             THEN ValidationError("LOW_CONFIDENCE")
        ELSE NoException

\* the Vertebra objects of the filtered detections, indexed and labelled by
\* position
extract_vertebrae(filtered_outputs) ==
    [i \in 1..Len(filtered_outputs.boxes) |-> Vertebra(i - 1, filtered_outputs.keypoints[i])]

\* the except clauses of analyze_spine: a ValidationError becomes status 400
\* with its error code, any other exception raised in the try block status
\* 500 with MODEL_ERROR
ExceptHandlers(exc) ==
    IF exc.type = "ValidationError" THEN HTTPError(400, exc.error_code)
    ELSE HTTPError(500, "MODEL_ERROR")

AnalysisResponse(vs, measurements, primary_cobb, primary, schroth, sev, orient) ==
    [success |-> TRUE, status |-> 200,
     vertebrae |-> vs,
     total_vertebrae_detected |-> Len(vs),
     cobb_angles |-> measurements,
     primary_cobb_angle |-> primary_cobb,
     curve_location |-> primary.curve_location,
     curve_direction |-> primary.curve_direction,
     schroth_type |-> schroth,
     severity |-> sev,
     orientation_used |-> orient]

(***************************************************************************)
(* SpecAnalyze: the server starts, loading the model or failing to, and    *)
(* answers POST /analyze requests.  What the detector sees in an image is  *)
(* a column of vertebrae whose shapes repeat one of a few patterns, scored *)
(* from the top down or from the bottom up, and possibly one more          *)
(* detection: one of low score, one beside the spine, or a second one on   *)
(* the same vertebra.                                                      *)
(***************************************************************************)
SpinePatterns ==
    <<<<1, 1, 1, 1>>, <<2, 2, 3, 3>>, <<1, 1, 1, 2, 1, 1, 3>>, <<2, 3, 1, 1>>>>

ScoreOrders == {"top_first", "bottom_first"}

ExtraDetections == {"none", "low_score", "beside", "duplicate"}

\* the shape of vertebra i (0-based) in a pattern
ShapeAt(pattern, i) ==
    VertebraShapes[SpinePatterns[pattern][(i % Len(SpinePatterns[pattern])) + 1]]

SpineBox(pattern, i) ==
    Box(100 + ShapeAt(pattern, i).offset, 40 + 30 * i,
        120 + ShapeAt(pattern, i).offset, 60 + 30 * i)

\* the detections of the n vertebrae of the column, from the top
SpineDetections(n, pattern, order) ==
    Detections([i \in 1..n |-> SpineBox(pattern, i - 1)],
               [i \in 1..n |-> IF order = "top_first" THEN 96 - i ELSE 69 + i],
               [i \in 1..n |-> ShapeKeypoints(ShapeAt(pattern, i - 1), i - 1)])

\* the one further detection, near the second vertebra
ExtraDetection(extra) ==
    LET box == CASE extra = "low_score" -> Box(100, 85, 120, 105)
                 [] extra = "beside" -> Box(150, 85, 170, 105)
                 [] extra = "duplicate" -> Box(100, 72, 120, 92)
    IN  Detections(<<box>>,
                   <<CASE extra = "low_score" -> 40
                       [] extra = "beside" -> 60
                       [] extra = "duplicate" -> 55>>,
                   <<CornersOf(box)>>)

\* model.predict(image): all detections by decreasing score
Predict(n, pattern, order, extra) ==
    LET spine == SpineDetections(n, pattern, order)
        more == IF extra = "none" THEN Detections(<< >>, << >>, << >>)
                ELSE ExtraDetection(extra)
        all == Detections(spine.boxes \o more.boxes, spine.scores \o more.scores,
                          spine.keypoints \o more.keypoints)
    IN  Select(all, ArgSort([i \in 1..Len(all.scores) |-> 0 - all.scores[i]]))

ImageErrors == {"INVALID_BASE64", "IMAGE_TOO_SMALL"}

\* the requests: an image that validate_image rejects, or one it accepts
\* together with what the detector finds in it
Requests ==
    {[image_error |-> e, raw_outputs |-> Detections(<< >>, << >>, << >>),
      confirmed_orientation |-> None] : e \in ImageErrors}
    \cup
    {[image_error |-> "none", raw_outputs |-> Predict(n, p, o, x),
      confirmed_orientation |-> c] :
        n \in 0..MaxSpine, p \in DOMAIN SpinePatterns, o \in ScoreOrders,
        x \in ExtraDetections, c \in ImageOrientations \cup {None}}

\* detect_lr_marker(image).suggested_orientation, which is consulted only
\* when the request confirms no orientation
DetectedOrientations(request) ==
    IF request.confirmed_orientation # None THEN {"unknown"} ELSE ImageOrientations

handlerIdle ==
    /\ orientation = None
    /\ inflections = None
    /\ cobb_angles = None
    /\ primary_cobb_angle = None
    /\ schroth_type = None
    /\ severity = None
    /\ primary_curve = None
    /\ vertebrae = None
    /\ computed = None
    /\ response = None
    /\ args = None

\* the process has started; the global SpineModel is not loaded yet
InitAnalyze ==
    /\ pc = "startup"
    /\ model_loaded = FALSE
    /\ handlerIdle
    /\ result = None
    /\ landmarks = None
    /\ image = None
    /\ locationIdle
    /\ photoIdle

\* main.py lifespan: load_model either sets _loaded or raises, and the
\* exception is printed and dropped; nothing loads the model later
Lifespan ==
    /\ pc = "startup"
    /\ pc' = "ready"
    /\ model_loaded' \in BOOLEAN
    /\ UNCHANGED <<landmarks, image, computed, response, segment, location>>
    /\ UNCHANGED xrayVars
    /\ UNCHANGED photoVars
    /\ UNCHANGED callVars

\* the handler ended at this step with this response, before any detection
\* was processed
EndedEarly(step, resp) ==
    /\ computed' = [ended_at |-> step]
    /\ response' = resp
    /\ UNCHANGED xrayVars

\* analyze_spine from the request to the response or the HTTP error;
\* computed tells where the handler ended and keeps the filtered detections
AnalyzeSpine ==
    /\ pc = "ready"
    /\ pc' = "responded"
    /\ \E request \in Requests :
       \E detected \in DetectedOrientations(request) :
          /\ args' = request
          /\ IF request.image_error # "none"
             THEN EndedEarly("validate_image",
                             ExceptHandlers(ValidationError(request.image_error)))
             ELSE IF ~model_loaded
             THEN EndedEarly("is_loaded", ExceptHandlers(ModelNotLoaded))
             ELSE \E filtered \in filter_detections(request.raw_outputs,
                                                    DEFAULT_CONFIDENCE_THRESHOLD,
                                                    DEFAULT_NMS_THRESHOLD,
                                                    DEFAULT_MAX_DETECTIONS) :
                    LET invalid == validate_detection_results(filtered)
                        orient == IF request.confirmed_orientation # None
                                  THEN request.confirmed_orientation
                                  ELSE detected
                        vs == extract_vertebrae(filtered)
                        measurements == calculate_all_cobb_angles(vs, orient)
                        primary_cobb == get_primary_cobb_angle(measurements)
                        schroth == determine_schroth_type(measurements, vs)
                        sev == determine_severity(primary_cobb)
                        primary == get_primary_curve_info(measurements)
                    IN  IF invalid # NoException
                        THEN /\ computed' = [ended_at |-> "validate_detection_results",
                                             filtered |-> filtered]
                             /\ response' = ExceptHandlers(invalid)
                             /\ UNCHANGED xrayVars
                        ELSE /\ computed' = [ended_at |-> "return", filtered |-> filtered]
                             /\ vertebrae' = vs
                             /\ orientation' = orient
                             /\ cobb_angles' = measurements
                             /\ primary_cobb_angle' = primary_cobb
                             /\ schroth_type' = schroth
                             /\ severity' = sev
                             /\ primary_curve' = primary
                             /\ inflections' = inflections
                             /\ response' = AnalysisResponse(vs, measurements, primary_cobb,
                                                             primary, schroth, sev, orient)
    /\ UNCHANGED <<landmarks, image, model_loaded, result, segment, location>>
    /\ UNCHANGED photoVars

\* the response is sent and the handler's locals are gone
NextRequest ==
    /\ pc = "responded"
    /\ pc' = "ready"
    /\ orientation' = None
    /\ inflections' = None
    /\ cobb_angles' = None
    /\ primary_cobb_angle' = None
    /\ schroth_type' = None
    /\ severity' = None
    /\ primary_curve' = None
    /\ vertebrae' = None
    /\ computed' = None
    /\ response' = None
    /\ args' = None
    /\ UNCHANGED <<landmarks, image, model_loaded, result, segment, location>>
    /\ UNCHANGED photoVars

NextAnalyze ==
    \/ Lifespan
    \/ AnalyzeSpine
    \/ NextRequest

SpecAnalyze == InitAnalyze /\ [][NextAnalyze]_vars

Responded == pc = "responded"

\* C26 as stated: when the detection model is not loaded, every POST /analyze
\* request that passes image validation is answered with HTTP status 503
\* (detail "Model not loaded. Please try again later.").
C26_AsStated ==
    Responded /\ ~model_loaded /\ args.image_error = "none" => response.status = 503

\* a request answered with an AnalysisResponse
Succeeded == Responded /\ response.success

\* C28: in every successful /analyze result schroth_type is unknown exactly
\* when cobb_angles is empty, and then primary_cobb_angle is 0.0, severity is
\* mild, curve_location is thoracic and curve_direction is none; when
\* cobb_angles is non-empty, primary_cobb_angle is at least 10 and equals the
\* largest angle in the list.
C28_ClassificationConsistent ==
    Succeeded =>
        /\ response.schroth_type = "unknown" <=> response.cobb_angles = << >>
        /\ response.cobb_angles = << >> =>
              /\ response.primary_cobb_angle = 0
              /\ response.severity = "mild"
              /\ response.curve_location = "thoracic"
              /\ response.curve_direction = "none"
        /\ response.cobb_angles # << >> =>
              /\ response.primary_cobb_angle >= 100
              /\ \A i \in 1..Len(response.cobb_angles) :
                    response.cobb_angles[i].angle <= response.primary_cobb_angle
              /\ \E i \in 1..Len(response.cobb_angles) :
                    response.cobb_angles[i].angle = response.primary_cobb_angle

\* a spine with several curves, the largest of them not the topmost
C28_Witness ==
    /\ Succeeded
    /\ Len(response.cobb_angles) >= 2
    /\ response.cobb_angles[1].angle > response.cobb_angles[2].angle
    /\ response.cobb_angles[1].upper_vertebra # "T1"
    /\ response.schroth_type # "unknown"

\* an image in which at least five vertebrae are found and no curve reaches
\* 10 degrees
C28_NoCurve ==
    /\ Succeeded
    /\ response.total_vertebrae_detected >= 5
    /\ response.cobb_angles = << >>
    /\ response.schroth_type = "unknown"

\* C29: every vertebra list that reaches calculate_all_cobb_angles has
\* between 5 and 17 vertebrae, each with index equal to its top-to-bottom
\* position and the label of that position in the 17-entry table; no
\* synthetic "Vn" label is produced; fewer than 5 detections end the request
\* with INSUFFICIENT_VERTEBRAE (NO_SPINE_DETECTED for none) before any Cobb
\* computation.
C29_FiveToSeventeenLabelled ==
    /\ Responded /\ computed.ended_at = "return" =>
          /\ Len(vertebrae) >= 5
          /\ Len(vertebrae) <= 17
          /\ \A i \in 1..Len(vertebrae) :
                /\ vertebrae[i].index = i - 1
                /\ vertebrae[i].label = VERTEBRA_LABELS[i]
                /\ vertebrae[i].keypoints = computed.filtered.keypoints[i]
          /\ \A i \in 1..(Len(vertebrae) - 1) :
                computed.filtered.boxes[i].y1 < computed.filtered.boxes[i + 1].y1
    /\ Responded /\ "filtered" \in DOMAIN computed /\ Len(computed.filtered.boxes) < 5 =>
          /\ computed.ended_at = "validate_detection_results"
          /\ response.status = 400
          /\ response.error_code = IF Len(computed.filtered.boxes) = 0
                                   THEN "NO_SPINE_DETECTED"
                                   ELSE "INSUFFICIENT_VERTEBRAE"
          /\ cobb_angles = None

\* the detector finds 19 vertebrae and one more thing; 17 vertebrae, T1 to
\* L5, reach the Cobb computation
C29_Witness ==
    /\ Succeeded
    /\ Len(args.raw_outputs.boxes) = 20
    /\ Len(vertebrae) = 17
    /\ vertebrae[17].label = "L5"

\* four detections are left of five
C29_Insufficient ==
    /\ Responded
    /\ Len(args.raw_outputs.boxes) = 5
    /\ response.status = 400
    /\ response.error_code = "INSUFFICIENT_VERTEBRAE"

(***************************************************************************)
(* C27: monotonicity of the risk assessment (checked under SpecRisk).      *)
(***************************************************************************)
\* the values a metric is raised to: each threshold and MetricStep above it
RaisedValues ==
    [hai_score |-> AtAndAbove({50, 100, 150}),
     waist_height_diff_pct |-> AtAndAbove({15, 30}),
     axilla_height_diff_pct |-> AtAndAbove({10, 25}),
     shoulder_height_diff_pct |-> AtAndAbove({10, 20, 40}),
     trunk_shift_pct |-> AtAndAbove({25, 50, 75}),
     hip_height_diff_pct |-> AtAndAbove({15, 30}),
     shoulder_rotation_score |-> AtAndAbove({800}),
     hip_rotation_score |-> AtAndAbove({800})]

LevelRank(level) ==
    CASE level = "LOW" -> 0 [] level = "MEDIUM" -> 1 [] level = "HIGH" -> 2

\* the risk score of the record with one metric raised
ScoreWith(field, value) == RiskScore([metrics EXCEPT ![field] = value])

\* C27: raising any one of the eight metrics while the others stay fixed
\* never lowers the risk score and never moves the risk level down.
C27_RiskMonotone ==
    pc = "assessed" =>
        \A field \in DOMAIN metrics : \A value \in RaisedValues[field] :
            value > metrics[field] =>
                LET raised == ScoreWith(field, value)
                IN  /\ raised >= risk_score
                    /\ LevelRank(RiskLevelOf(raised)) >= LevelRank(risk_level)

\* a record assessed as medium that a larger trunk shift alone makes high
C27_Witness ==
    /\ pc = "assessed"
    /\ risk_level = "MEDIUM"
    /\ metrics.trunk_shift_pct <= 50
    /\ RiskLevelOf(ScoreWith("trunk_shift_pct", 76)) = "HIGH"
    /\ ScoreWith("trunk_shift_pct", 76) > risk_score

(***************************************************************************)
(* C30: apex and direction of a measurement (checked under Spec).          *)
(***************************************************************************)
\* 4 x the centre x of the vertebra at a 0-based index
CentreX4(i) ==
    LET kp == At(vertebrae, i).keypoints
    IN  kp[1].x + kp[2].x + kp[3].x + kp[4].x

\* 8 x (centre x - midline x) for the segment of a measurement
OffMidline(m, i) ==
    2 * CentreX4(i)
        - (CentreX4(IndexOfLabel(m.upper_vertebra)) + CentreX4(IndexOfLabel(m.lower_vertebra)))

SegmentOf(m) == IndexOfLabel(m.upper_vertebra)..IndexOfLabel(m.lower_vertebra)

ApexOf(m) == IndexOfLabel(m.apex_vertebra)

=============================================================================
